---- MODULE Spec2Model ----
(***************************************************************************)
(* Artifact lineage-and-acceptance pipeline of the Baldur repository:      *)
(* AGIFileSystem (content store), LineageHasher (ledger),                  *)
(* BeliefEvolutionGraph (relationship graph) and ModuleAcceptanceDaemon    *)
(* (acceptance pipeline).                                                  *)
(*                                                                         *)
(* Every component receives its collaborators as constructor arguments     *)
(* (typed Any).  The variable binding fixes, for a whole behaviour, what   *)
(* was passed:                                                             *)
(*   "repository"  the classes of this repository, with Python's call      *)
(*                 semantics: a keyword or an arity the callee does not    *)
(*                 accept raises TypeError, a missing key raises KeyError, *)
(*                 a missing method raises AttributeError, a module name   *)
(*                 that is never imported raises NameError;                *)
(*   "assumed"     collaborators that answer every call the way the        *)
(*                 calling code expects (the listing record carries its    *)
(*                 content, the activity log accepts a severity, the gate  *)
(*                 returns a report, ...).                                 *)
(* A SHA-256 digest is modelled as the tagged preimage, so two digests     *)
(* are equal exactly when their preimages are.                             *)
(***************************************************************************)
EXTENDS Integers, Sequences, FiniteSets, TLC

VARIABLES
    binding,          \* which collaborators were passed at construction
    clock,            \* the last value time.time() returned
    files_metadata,   \* AGIFileSystem.files_metadata: file_id -> record
    file_order,       \* insertion order of files_metadata (a Python dict)
    artifacts,        \* the content file written for each file_id
    hash_records,     \* LineageHasher.hash_records: artifact_id -> record
    nodes,            \* BeliefEvolutionGraph.nodes: node_id -> record
    edges,            \* BeliefEvolutionGraph.edges: a list
    diary,            \* TelemetryService.diary_entries, as (type, subject)
    calls,            \* number of store calls made so far
    result,           \* the last store call, its arguments and its outcome
    sandbox_enabled,  \* ModuleAcceptanceDaemon.sandbox_enabled
    running,          \* ModuleAcceptanceDaemon._running
    health_status,    \* ModuleAcceptanceDaemon.health_status
    active,           \* the coroutine the event loop is executing
    task,             \* each start() coroutine: position and locals
    feedback,         \* what receive_acceptance_feedback was given
    hist              \* what the pipeline did (observations for the claims)

storeVars == <<files_metadata, file_order, artifacts>>
worldVars == <<hash_records, nodes, edges, diary>>
daemonVars == <<sandbox_enabled, running, health_status, active, task, feedback, hist>>
vars == <<binding, clock, storeVars, worldVars, calls, result, daemonVars>>

(***************************** bounds **************************************)
MaxClock == 1
MaxCalls == 2
MaxSubmits == 2
MaxTasks == 2
MaxCycles == 2
MaxLedgerCalls == 3
MaxGraphCalls == 2
MaxQueryCalls == 4
MaxDepth == 3
MaxRadius == 2
MaxLines == 2

(***************************** values **************************************)
NoId == <<>>
NoTask == 0
Bindings == {"repository", "assumed"}

\* Content values: a str, or a dict that json.dumps turns into a string.
StrContent(s) == [kind |-> "str", val |-> s]
DictContent(s) == [kind |-> "dict", val |-> s]

\* json.dumps(content, sort_keys=True) for a non-string, the string itself
\* otherwise (Agi_file_system.py lines 55-61 and 208-214).
Serialize(content) ==
    IF content.kind = "str" THEN content.val
    ELSE CASE content.val = "a1" -> "{\"a\": 1}"
           [] content.val = "response1" -> "{\"attempt\": 1, \"success\": true}"
           [] content.val = "response2" -> "{\"attempt\": 2, \"success\": true}"
           [] content.val = "response3" -> "{\"attempt\": 3, \"success\": true}"
           [] content.val = "failure" -> "{\"reason\": \"...\", \"success\": false}"
           [] OTHER -> "{}"

\* Strings longer than 200 characters (the preview limit).
LongStrings == {"long_module"}

\* content_str[:200] + "..." if len(content_str) > 200 else content_str
ContentPreview(s) == IF s \in LongStrings THEN "long_modul..." ELSE s

\* LineageHasher.hash_content for a str: sha256 of its utf-8 bytes.
hash_content(s) == <<"sha256", s>>

\* The order Python's sorted() puts the digests in (an order on preimages).
StrRank(s) ==
    CASE s = "good_module" -> 1
      [] s = "import os" -> 2
      [] s = "infinite_loop_test" -> 3
      [] s = "long_module" -> 4
      [] s = "long_modul..." -> 5
      [] s = "{\"a\": 1}" -> 6
      [] OTHER -> 7

RECURSIVE InsertSorted(_, _)
InsertSorted(h, s) ==
    IF s = <<>> THEN <<h>>
    ELSE IF StrRank(h[2]) <= StrRank(Head(s)[2]) THEN <<h>> \o s
         ELSE <<Head(s)>> \o InsertSorted(h, Tail(s))

RECURSIVE sorted(_)
sorted(s) == IF s = <<>> THEN <<>> ELSE InsertSorted(Head(s), sorted(Tail(s)))

\* dict assignment d[k] = v
Put(f, k, v) == [x \in (DOMAIN f) \cup {k} |-> IF x = k THEN v ELSE f[x]]

\* {**old, **new} on dicts held as sets of (key, value)
MergeMeta(old, new) == {p \in old : \A q \in new : q[1] # p[1]} \cup new

MetaKeys(m) == {p[1] : p \in m}

\* file_id: sha256 of "name-type-time-creator"
FileId(name, type, t, who) == <<name, type, t, who>>

(************************ ledger, graph, activity log ***********************)
\* The ledger, the graph and the log are threaded through the calls of one
\* handler as a record w = [hash_records, nodes, edges, diary].

\* TelemetryService.add_diary_entry(entry_type, content, metadata, contributor)
add_diary_entry(w, entry_type, subject) ==
    [w EXCEPT !.diary = @ \cup {<<entry_type, subject>>}]

\* A call that also passes severity=...: the repository's add_diary_entry has
\* no such parameter.
SeverityRaises == binding = "repository"

\* (the mutation of ChainHash used for C15: the parent hashes joined as given)
ChainHashUnsorted(content_hash, parent_hashes, ts) ==
    IF parent_hashes = <<>> THEN content_hash
    ELSE <<"sha256", content_hash, parent_hashes, ts>>

\* artifact_type is a pair (prefix, type): the store passes the file type as it
\* is, the graph passes "graph_node_" or "graph_node_update_" + the node type.
ChainHash(content_hash, parent_hashes, ts) ==
    IF parent_hashes = <<>> THEN content_hash
    ELSE <<"sha256", content_hash, sorted(parent_hashes), ts>>

record_artifact_hash(w, artifact_id, artifact_type, content_hash, parent_hashes, ts) ==
    LET record == [artifact_id |-> artifact_id,
                   artifact_type |-> artifact_type,
                   content_hash |-> content_hash,
                   chain_hash |-> ChainHash(content_hash, parent_hashes, ts),
                   parent_hashes |-> parent_hashes,
                   timestamp |-> ts]
        w1 == [w EXCEPT !.hash_records = Put(@, artifact_id, record)]
    IN  add_diary_entry(w1, "LineageHasher_Artifact_Hashed", artifact_id)

\* (the mutation of add_edge used for C20: no check of the endpoints)
add_edge_unchecked(w, source, target, edge_type, ts) ==
    LET edge == [source |-> source, target |-> target, type |-> edge_type,
                 creation_timestamp |-> ts]
        w1 == [w EXCEPT !.edges = Append(@, edge)]
    IN  add_diary_entry(w1, "BeliefGraph_Edge_Added", target)

add_edge(w, source, target, edge_type, ts) ==
    IF source \notin DOMAIN w.nodes \/ target \notin DOMAIN w.nodes THEN w
    ELSE LET edge == [source |-> source, target |-> target, type |-> edge_type,
                      creation_timestamp |-> ts]
             w1 == [w EXCEPT !.edges = Append(@, edge)]
         IN  add_diary_entry(w1, "BeliefGraph_Edge_Added", target)

\* None, for an optional str, dict or float argument.
NoneStr == "<None>"
NoneMeta == {<<"<None>", "<None>">>}
NoTime == -1

\* update_node's three flags (lines 116-133): content and status count as
\* changed when supplied and different, metadata whenever it is supplied.
content_changed(node, new_content) ==
    new_content # NoneStr /\ new_content # node.content
status_changed(node, new_status) ==
    new_status # NoneStr /\ new_status # node.status
metadata_changed(node, new_metadata) == new_metadata # NoneMeta

\* What update_node returns.
update_node_returns(w, node_id, new_content, new_status, new_metadata) ==
    /\ node_id \in DOMAIN w.nodes
    /\ \/ content_changed(w.nodes[node_id], new_content)
       \/ status_changed(w.nodes[node_id], new_status)
       \/ metadata_changed(w.nodes[node_id], new_metadata)

\* update_node; now is the reading of time.time() at line 137.
update_node(w, node_id, new_content, new_status, new_metadata, now) ==
    IF ~update_node_returns(w, node_id, new_content, new_status, new_metadata) THEN w
    ELSE LET node == w.nodes[node_id]
             node1 == [node EXCEPT
                         !.content = IF content_changed(node, new_content)
                                     THEN new_content ELSE @,
                         !.status = IF status_changed(node, new_status)
                                    THEN new_status ELSE @,
                         !.metadata = IF metadata_changed(node, new_metadata)
                                      THEN MergeMeta(@, new_metadata) ELSE @,
                         !.last_updated_timestamp = now]
             w1 == [w EXCEPT !.nodes = Put(@, node_id, node1)]
             w2 == record_artifact_hash(w1, node_id, <<"graph_node_update_", node.type>>,
                                        hash_content(node1.content),
                                        <<hash_content(node.content)>>, now)
         IN  add_diary_entry(w2, "BeliefGraph_Node_Updated", node_id)

\* (the mutation of add_node used for C18: no delegation to update_node)
add_node_inserting(w, node_id, node_type, content, status, ts, metadata, parent_node_id, now) ==
    LET timestamp == IF ts = NoTime THEN now ELSE ts
        node == [id |-> node_id, type |-> node_type, content |-> content,
                 status |-> status, creation_timestamp |-> timestamp,
                 last_updated_timestamp |-> timestamp,
                 metadata |-> IF metadata = NoneMeta THEN {} ELSE metadata]
        w1 == [w EXCEPT !.nodes = Put(@, node_id, node)]
        w2 == record_artifact_hash(w1, node_id, <<"graph_node_", node_type>>,
                                   hash_content(content), <<>>, now)
        w3 == IF parent_node_id # NoId /\ parent_node_id \in DOMAIN w2.nodes
              THEN add_edge(w2, parent_node_id, node_id, "parent_of", timestamp)
              ELSE w2
    IN  add_diary_entry(w3, "BeliefGraph_Node_Added", node_id)

\* add_node; ts is the timestamp argument (NoTime for None), now the reading
\* of time.time() in the calls it makes.
add_node(w, node_id, node_type, content, status, ts, metadata, parent_node_id, now) ==
    IF node_id \in DOMAIN w.nodes
    THEN update_node(w, node_id, content, status, metadata, now)
    ELSE LET timestamp == IF ts = NoTime THEN now ELSE ts
             node == [id |-> node_id, type |-> node_type, content |-> content,
                      status |-> status, creation_timestamp |-> timestamp,
                      last_updated_timestamp |-> timestamp,
                      metadata |-> IF metadata = NoneMeta THEN {} ELSE metadata]
             w1 == [w EXCEPT !.nodes = Put(@, node_id, node)]
             w2 == record_artifact_hash(w1, node_id, <<"graph_node_", node_type>>,
                                        hash_content(content), <<>>, now)
             w3 == IF parent_node_id # NoId /\ parent_node_id \in DOMAIN w2.nodes
                   THEN add_edge(w2, parent_node_id, node_id, "parent_of", timestamp)
                   ELSE w2
         IN  add_diary_entry(w3, "BeliefGraph_Node_Added", node_id)

World == [hash_records |-> hash_records, nodes |-> nodes, edges |-> edges, diary |-> diary]

SetWorld(w) ==
    /\ hash_records' = w.hash_records
    /\ nodes' = w.nodes
    /\ edges' = w.edges
    /\ diary' = w.diary

(***************************** AGIFileSystem *******************************)
\* The outcome of one store call: the store, ledger, graph and log it leaves
\* and what the caller gets (ret.outcome is "returned", "failed", "none" or
\* "raised"; ret.value is the file_id of the record returned).
StoreOutcome(fm, order, art, w, outcome, value) ==
    [fm |-> fm, order |-> order, art |-> art, w |-> w,
     ret |-> [outcome |-> outcome, value |-> value]]

KeepOrder(order, id) == IF id \in DOMAIN files_metadata THEN order ELSE Append(order, id)

\* The condition of update_file's early return (line 221).
UpdateSkipped(old_hash, new_hash, metadata) == new_hash = old_hash /\ metadata = {}

\* add_file: t1 is the clock reading in the id, t2 the later readings;
\* disk_ok tells whether writing the content file succeeds.
add_file(file_name, file_type, content, creator_id, parent_file_id, metadata, t1, t2, disk_ok) ==
    LET file_id == FileId(file_name, file_type, t1, creator_id)
        content_str == Serialize(content)
        content_hash == hash_content(content_str)
        file_metadata == [file_id |-> file_id, file_name |-> file_name,
                          file_type |-> file_type, content_hash |-> content_hash,
                          creator_id |-> creator_id, creation_timestamp |-> t2,
                          last_modified_timestamp |-> t2,
                          parent_file_id |-> parent_file_id, status |-> "stored",
                          metadata |-> metadata,
                          content_preview |-> ContentPreview(content_str)]
        fm == Put(files_metadata, file_id, file_metadata)
        order == KeepOrder(file_order, file_id)
        parent_hashes == IF parent_file_id # NoId /\ parent_file_id \in DOMAIN fm
                         THEN <<fm[parent_file_id].content_hash>> ELSE <<>>
        w1 == record_artifact_hash(World, file_id, <<"", file_type>>, content_hash,
                                   parent_hashes, t2)
        w2 == add_node(w1, file_id, file_type, file_metadata.content_preview, "active", t2,
                       {<<"file_name", file_name>>, <<"creator_id", creator_id>>,
                        <<"content_hash", content_str>>}, NoId, t2)
        w3 == IF parent_file_id # NoId
              THEN add_edge(w2, parent_file_id, file_id, "derived_from", t2) ELSE w2
        w4 == add_diary_entry(w3, "AGIFileSystem_File_Added", file_id)
    IN  IF disk_ok
        THEN StoreOutcome(fm, order, Put(artifacts, file_id, content_str), w4,
                          "returned", file_id)
        ELSE IF SeverityRaises
        THEN StoreOutcome(fm, order, artifacts, World, "raised", NoId)
        ELSE StoreOutcome(fm, order, artifacts,
                          add_diary_entry(World, "AGIFileSystem_File_Add_Failed", file_id),
                          "failed", NoId)

update_file(file_id, new_content, updater_id, metadata, t1, t2, disk_ok) ==
    IF file_id \notin DOMAIN files_metadata
    THEN StoreOutcome(files_metadata, file_order, artifacts, World, "none", NoId)
    ELSE
    LET old_file_metadata == files_metadata[file_id]
        new_content_str == Serialize(new_content)
        new_content_hash == hash_content(new_content_str)
        new_file_id == FileId(old_file_metadata.file_name, old_file_metadata.file_type,
                              t1, updater_id)
        new_file_metadata == [file_id |-> new_file_id,
                              file_name |-> old_file_metadata.file_name,
                              file_type |-> old_file_metadata.file_type,
                              content_hash |-> new_content_hash,
                              creator_id |-> old_file_metadata.creator_id,
                              creation_timestamp |-> old_file_metadata.creation_timestamp,
                              last_modified_timestamp |-> t2,
                              parent_file_id |-> file_id, status |-> "updated",
                              metadata |-> MergeMeta(old_file_metadata.metadata, metadata),
                              content_preview |-> ContentPreview(new_content_str)]
        fm == Put(files_metadata, new_file_id, new_file_metadata)
        order == KeepOrder(file_order, new_file_id)
        w1 == record_artifact_hash(World, new_file_id, <<"", new_file_metadata.file_type>>,
                                   new_content_hash, <<old_file_metadata.content_hash>>, t2)
        w2 == add_node(w1, new_file_id, new_file_metadata.file_type,
                       new_file_metadata.content_preview, "active", t2,
                       {<<"file_name", new_file_metadata.file_name>>,
                        <<"updater_id", updater_id>>,
                        <<"content_hash", new_content_str>>}, NoId, t2)
        w3 == add_edge(w2, file_id, new_file_id, "updated_to", t2)
        w4 == add_diary_entry(w3, "AGIFileSystem_File_Updated", new_file_id)
    IN  IF UpdateSkipped(old_file_metadata.content_hash, new_content_hash, metadata)
        THEN IF SeverityRaises
             THEN StoreOutcome(files_metadata, file_order, artifacts, World, "raised", NoId)
             ELSE StoreOutcome(files_metadata, file_order, artifacts,
                               add_diary_entry(World, "AGIFileSystem_File_Update_Skipped", file_id),
                               "returned", file_id)
        ELSE IF disk_ok
        THEN StoreOutcome(fm, order, Put(artifacts, new_file_id, new_content_str), w4,
                          "returned", new_file_id)
        ELSE IF SeverityRaises
        THEN StoreOutcome(fm, order, artifacts, World, "raised", NoId)
        ELSE StoreOutcome(fm, order, artifacts,
                          add_diary_entry(World, "AGIFileSystem_File_Update_Failed", file_id),
                          "failed", NoId)

\* list_files(file_type, status): the ids of the matching records, in the
\* dict's order.
list_files(file_type, status) ==
    SelectSeq(file_order, LAMBDA id : /\ files_metadata[id].file_type = file_type
                                      /\ files_metadata[id].status = status)

SetStore(o) ==
    /\ files_metadata' = o.fm
    /\ file_order' = o.order
    /\ artifacts' = o.art
    /\ SetWorld(o.w)

(*********************** the store driven by its callers ********************)
FileNames == {"mod_a"}
FileTypes == {"python_code"}
Creators == {"u1", "u2"}
StoreContents == {StrContent("{\"a\": 1}"), DictContent("a1"), StrContent("long_module")}
Metadatas == {{}, {<<"purpose", "test">>}}
DanglingId == FileId("mod_a", "python_code", MaxClock + 1, "nobody")

NoCall == [op |-> "none", file_id |-> NoId, content |-> StrContent(""),
           who |-> "", metadata |-> {}, ret |-> [outcome |-> "none", value |-> NoId]]

CallAddFile ==
    /\ active = NoTask
    /\ calls < MaxCalls
    /\ \E file_name \in FileNames, file_type \in FileTypes, content \in StoreContents,
          creator_id \in Creators, metadata \in Metadatas,
          parent_file_id \in (DOMAIN files_metadata) \cup {NoId, DanglingId},
          t1 \in clock..MaxClock, disk_ok \in BOOLEAN :
          \E t2 \in t1..MaxClock :
             LET o == add_file(file_name, file_type, content, creator_id,
                               parent_file_id, metadata, t1, t2, disk_ok)
             IN  /\ SetStore(o)
                 /\ clock' = t2
                 /\ result' = [op |-> "add_file", file_id |-> NoId, content |-> content,
                               who |-> creator_id, metadata |-> metadata, ret |-> o.ret]
    /\ calls' = calls + 1
    /\ UNCHANGED <<binding, daemonVars>>

CallUpdateFile ==
    /\ active = NoTask
    /\ calls < MaxCalls
    /\ \E file_id \in (DOMAIN files_metadata) \cup {DanglingId}, content \in StoreContents,
          updater_id \in Creators, metadata \in Metadatas,
          t1 \in clock..MaxClock, disk_ok \in BOOLEAN :
          \E t2 \in t1..MaxClock :
             LET o == update_file(file_id, content, updater_id, metadata, t1, t2, disk_ok)
             IN  /\ SetStore(o)
                 /\ clock' = t2
                 /\ result' = [op |-> "update_file", file_id |-> file_id,
                               content |-> content, who |-> updater_id,
                               metadata |-> metadata, ret |-> o.ret]
    /\ calls' = calls + 1
    /\ UNCHANGED <<binding, daemonVars>>

EmptyMap == [x \in {} |-> 0]

Init ==
    /\ binding \in Bindings
    /\ clock = 0
    /\ files_metadata = EmptyMap
    /\ file_order = <<>>
    /\ artifacts = EmptyMap
    /\ hash_records = EmptyMap
    /\ nodes = EmptyMap
    /\ edges = <<>>
    /\ diary = {}
    /\ calls = 0
    /\ result = NoCall
    /\ sandbox_enabled \in BOOLEAN
    /\ running = FALSE
    /\ health_status = [status |-> "initializing", modules_accepted_this_cycle |-> 0,
                        error_count |-> 0]
    /\ active = NoTask
    /\ task = EmptyMap
    /\ feedback = {}
    /\ hist = [rejected |-> {}, reexamined |-> {}, cycles |-> 0, hashed |-> {}]

NextStore == CallAddFile \/ CallUpdateFile

SpecStore == Init /\ [][NextStore]_vars

(************************* ModuleAcceptanceDaemon ***************************)
\* start() is a coroutine: between two awaits it runs alone on the event
\* loop.  A task at a position that is not an await holds active; a task at
\* an await ("ethics_wait", "sandbox_wait", "feedback_wait", "sleep") is
\* resumed when the event loop is free.
Generator == "GeminiSccmGenerator"
Daemon == "ModuleAcceptanceDaemon"

\* Gatekeeper.validate_module: "rejected" when the report has issues.  Of the
\* contents modelled only "import os" matches a prohibited pattern.
validate_module(module_code) ==
    IF module_code = "import os" THEN "rejected" ELSE "approved"

\* _conceptual_sandbox_run: the stub's verdict, by the marker texts.
conceptual_sandbox_run(module_code) == module_code # "infinite_loop_test"

\* LineageHasher.verify_lineage_chain: the record exists and each of its
\* parent hashes is the content_hash of some record.
verify_lineage_chain(artifact_id) ==
    /\ artifact_id \in DOMAIN hash_records
    /\ \A i \in 1..Len(hash_records[artifact_id].parent_hashes) :
          \E r \in DOMAIN hash_records :
             hash_records[r].content_hash = hash_records[artifact_id].parent_hashes[i]

\* Step 4 calls verify_lineage_chain only under this condition (line 290).
LineageChecked(module_id) ==
    /\ module_id \in DOMAIN files_metadata
    /\ "parent_file_id" \in MetaKeys(files_metadata[module_id].metadata)

\* Whether the protocol returns right after a gate's verdict.
ReturnsAfterGateNever(passed) == FALSE
ReturnsAfterGate(passed) == ~passed

NewReport == [accepted |-> TRUE, reason |-> "All checks passed"]
Rejection(reason) == [accepted |-> FALSE, reason |-> reason]

NewTask == [pc |-> "while", pending |-> <<>>, idx |-> 0, module_id |-> NoId,
            module_code |-> "", report |-> NewReport, gates |-> <<>>,
            processed |-> 0, reached |-> {}, done |-> {}, notified |-> {}]

\* The locals of one loop iteration, dead once the iteration is over.
Forget(r) == [r EXCEPT !.module_id = NoId, !.module_code = "", !.report = NewReport,
                       !.gates = <<>>]

Gate(gate, outcome) == [gate |-> gate, outcome |-> outcome]
SetLast(gates, outcome) == [gates EXCEPT ![Len(gates)].outcome = outcome]

Log(entry_type, subject) == diary' = diary \cup {<<entry_type, subject>>}

\* The daemon's update_file(file_name=, file_type=, new_content=, updater_id=,
\* metadata=) call.  The repository's update_file takes file_id, not file_name
\* and file_type: the call raises TypeError.  Otherwise the store runs
\* update_file for the examined record.
DaemonUpdate(t, metadata) ==
    \E t1 \in clock..MaxClock : \E t2 \in t1..MaxClock :
        /\ SetStore(update_file(task[t].module_id, StrContent(task[t].module_code),
                                Daemon, metadata, t1, t2, TRUE))
        /\ clock' = t2

Start ==
    /\ active = NoTask
    /\ ~running
    /\ Cardinality(DOMAIN task) < MaxTasks
    /\ hist.cycles < MaxCycles
    /\ LET t == Cardinality(DOMAIN task) + 1
       IN  /\ task' = Put(task, t, NewTask)
           /\ active' = t
    /\ running' = TRUE
    /\ health_status' = [health_status EXCEPT !.status = "running"]
    /\ Log("ModuleAcceptanceDaemon_Started", NoId)
    /\ hist' = [hist EXCEPT !.cycles = @ + 1]
    /\ UNCHANGED <<binding, clock, storeVars, hash_records, nodes, edges, calls, result,
                   sandbox_enabled, feedback>>

Stop ==
    /\ active = NoTask
    /\ running
    /\ running' = FALSE
    /\ health_status' = [health_status EXCEPT !.status = "stopped"]
    /\ Log("ModuleAcceptanceDaemon_Stopped", NoId)
    /\ UNCHANGED <<binding, clock, storeVars, hash_records, nodes, edges, calls, result,
                   sandbox_enabled, active, task, feedback, hist>>

\* (the mutation of While used for C29: the flag is not looked at)
WhileForever(t) ==
    /\ active = t
    /\ task[t].pc = "while"
    /\ task' = [task EXCEPT ![t].pc = "for",
                             ![t].pending = list_files("python_code", "stored"),
                             ![t].idx = 0, ![t].processed = 0,
                             ![t].reached = {}, ![t].done = {}, ![t].notified = {}]
    /\ UNCHANGED <<binding, clock, storeVars, worldVars, calls, result, sandbox_enabled,
                   running, health_status, feedback, hist, active>>

\* while self._running: ... pending_modules = list_files("python_code", "stored")
While(t) ==
    /\ active = t
    /\ task[t].pc = "while"
    /\ IF running
       THEN /\ task' = [task EXCEPT ![t].pc = "for",
                                    ![t].pending = list_files("python_code", "stored"),
                                    ![t].idx = 0, ![t].processed = 0,
                                    ![t].reached = {}, ![t].done = {}, ![t].notified = {}]
            /\ UNCHANGED active
       ELSE /\ task' = [task EXCEPT ![t].pc = "done"]
            /\ active' = NoTask
    /\ UNCHANGED <<binding, clock, storeVars, worldVars, calls, result, sandbox_enabled,
                   running, health_status, feedback, hist>>

\* for module_info in pending_modules: the three subscripts of lines 85-87,
\* or the end of the cycle (lines 163-176) and the await of the sleep.
For(t) ==
    /\ active = t
    /\ task[t].pc = "for"
    /\ IF task[t].idx = Len(task[t].pending)
       THEN /\ task' = [task EXCEPT ![t] = Forget([@ EXCEPT !.pc = "sleep"])]
            /\ active' = NoTask
            /\ health_status' = [health_status EXCEPT
                                   !.status = "running_ok",
                                   !.modules_accepted_this_cycle = task[t].processed]
            /\ Log("ModuleAcceptanceDaemon_Cycle_Complete", NoId)
            /\ UNCHANGED hist
       ELSE LET id == task[t].pending[task[t].idx + 1]
            IN  /\ task' = [task EXCEPT
                              ![t].idx = @ + 1,
                              ![t].module_id = id,
                              ![t].reached = @ \cup {id},
                              ![t].module_code = IF binding = "assumed" /\ id \in DOMAIN artifacts
                                                 THEN artifacts[id] ELSE "",
                              ![t].report = NewReport,
                              ![t].gates = <<>>,
                              ![t].pc = IF binding = "repository" THEN "except"
                                        ELSE "gatekeeper"]
                /\ hist' = [hist EXCEPT !.reexamined =
                                 IF id \in hist.rejected THEN @ \cup {id} ELSE @]
                /\ UNCHANGED <<active, health_status, diary>>
    /\ UNCHANGED <<binding, clock, storeVars, hash_records, nodes, edges, calls, result,
                   sandbox_enabled, running, feedback>>

\* Step 1 of the protocol, and the call of the ethics check (an await).
GatekeeperStep(t) ==
    /\ active = t
    /\ task[t].pc = "gatekeeper"
    /\ LET passed == validate_module(task[t].module_code) = "approved"
           gates1 == Append(task[t].gates, Gate("gatekeeper",
                                                IF passed THEN "approved" ELSE "rejected"))
           report1 == IF passed THEN task[t].report
                      ELSE Rejection("Gatekeeper validation failed.")
       IN  IF ReturnsAfterGate(passed)
           THEN /\ task' = [task EXCEPT ![t].gates = gates1, ![t].report = report1,
                                        ![t].pc = "branch"]
                /\ Log("ModuleAcceptanceDaemon_Gatekeeper_Rejection", task[t].module_id)
                /\ UNCHANGED active
           ELSE /\ task' = [task EXCEPT ![t].gates = Append(gates1, Gate("ethics", "running")),
                                        ![t].report = report1,
                                        ![t].pc = "ethics_wait"]
                /\ active' = NoTask
                /\ UNCHANGED diary
    /\ UNCHANGED <<binding, clock, storeVars, hash_records, nodes, edges, calls, result,
                   sandbox_enabled, running, health_status, feedback, hist>>

\* vet_proposition returns (approved or not) or raises; step 3 then calls the
\* sandbox stub, which awaits its sleep.
EthicsReturn(t) ==
    /\ active = NoTask
    /\ task[t].pc = "ethics_wait"
    /\ active' = t
    /\ \E answer \in {"approved", "vetoed", "raised"} :
          LET passed == answer = "approved"
              gates1 == SetLast(task[t].gates, answer)
              report1 == IF passed THEN task[t].report
                         ELSE Rejection("DVMBackend ethical review failed.")
          IN  IF answer = "raised"
              THEN /\ task' = [task EXCEPT ![t].gates = gates1, ![t].pc = "except"]
                   /\ UNCHANGED diary
              ELSE IF ReturnsAfterGate(passed)
              THEN /\ task' = [task EXCEPT ![t].gates = gates1, ![t].report = report1,
                                           ![t].pc = "branch"]
                   /\ Log("ModuleAcceptanceDaemon_DVM_Rejection", task[t].module_id)
              ELSE /\ task' = [task EXCEPT ![t].gates = gates1, ![t].report = report1,
                                           ![t].pc = IF sandbox_enabled THEN "sandbox"
                                                     ELSE "lineage"]
                   /\ UNCHANGED diary
    /\ UNCHANGED <<binding, clock, storeVars, hash_records, nodes, edges, calls, result,
                   sandbox_enabled, running, health_status, feedback, hist>>

\* await self._conceptual_sandbox_run(module_code): the stub is entered and
\* awaits asyncio.sleep(0.5).
SandboxCall(t) ==
    /\ active = t
    /\ task[t].pc = "sandbox"
    /\ task' = [task EXCEPT ![t].gates = Append(@, Gate("sandbox", "running")),
                            ![t].pc = "sandbox_wait"]
    /\ active' = NoTask
    /\ UNCHANGED <<binding, clock, storeVars, worldVars, calls, result, sandbox_enabled,
                   running, health_status, feedback, hist>>

SandboxReturn(t) ==
    /\ active = NoTask
    /\ task[t].pc = "sandbox_wait"
    /\ active' = t
    /\ LET passed == conceptual_sandbox_run(task[t].module_code)
           gates1 == SetLast(task[t].gates, IF passed THEN "passed" ELSE "failed")
           report1 == IF passed THEN task[t].report
                      ELSE Rejection("Conceptual sandbox simulation failed.")
       IN  /\ task' = [task EXCEPT ![t].gates = gates1, ![t].report = report1,
                                   ![t].pc = IF ReturnsAfterGate(passed) THEN "branch"
                                             ELSE "lineage"]
           /\ Log(IF passed THEN "ModuleAcceptanceDaemon_Sandbox_Success"
                  ELSE "ModuleAcceptanceDaemon_Sandbox_Failure", task[t].module_id)
    /\ UNCHANGED <<binding, clock, storeVars, hash_records, nodes, edges, calls, result,
                   sandbox_enabled, running, health_status, feedback, hist>>

\* Steps 4 and 5: the lineage check when the metadata names a parent, the
\* docstring preview, return report.
LineageStep(t) ==
    /\ active = t
    /\ task[t].pc = "lineage"
    /\ IF LineageChecked(task[t].module_id)
       THEN LET verified == verify_lineage_chain(task[t].module_id)
            IN  /\ task' = [task EXCEPT
                              ![t].gates = Append(@, Gate("lineage",
                                                          IF verified THEN "verified"
                                                          ELSE "failed")),
                              ![t].report = IF verified THEN @
                                            ELSE Rejection("Lineage chain verification failed."),
                              ![t].pc = "branch"]
                /\ diary' = diary \cup
                     {<<"LineageHasher_Record_Accessed", task[t].module_id>>,
                      <<IF verified THEN "LineageHasher_Chain_Verified"
                        ELSE "LineageHasher_Chain_Verification_Failed", task[t].module_id>>,
                      <<"ModuleAcceptanceDaemon_Docstring_Preview", task[t].module_id>>}
                     \cup (IF verified THEN {}
                           ELSE {<<"ModuleAcceptanceDaemon_Lineage_Failure",
                                   task[t].module_id>>})
       ELSE /\ task' = [task EXCEPT ![t].pc = "branch"]
            /\ Log("ModuleAcceptanceDaemon_Docstring_Preview", task[t].module_id)
    /\ UNCHANGED <<binding, clock, storeVars, hash_records, nodes, edges, calls, result,
                   sandbox_enabled, running, health_status, active, feedback, hist>>

\* if acceptance_report["accepted"]: ... else: the rejection (lines 143-160)
\* up to the await of the feedback call.
Branch(t) ==
    /\ active = t
    /\ task[t].pc = "branch"
    /\ IF task[t].report.accepted
       THEN /\ task' = [task EXCEPT ![t].pc = "load"]
            /\ UNCHANGED <<clock, storeVars, worldVars, active, hist>>
       ELSE IF binding = "repository"
       THEN /\ task' = [task EXCEPT ![t].pc = "except"]
            /\ UNCHANGED <<clock, storeVars, worldVars, active, hist>>
       ELSE /\ DaemonUpdate(t, {<<"status", "rejected_auto">>,
                                <<"reason", task[t].report.reason>>})
            /\ task' = [task EXCEPT ![t].pc = "feedback_wait",
                                    ![t].done = @ \cup {<<task[t].module_id, "rejected">>}]
            /\ hist' = [hist EXCEPT !.rejected = @ \cup {task[t].module_id}]
            /\ active' = NoTask
    /\ UNCHANGED <<binding, calls, result, sandbox_enabled, running, health_status, feedback>>

\* module_loader.load_module(module_id) and what follows it (lines 98-142).
\* The repository's load_module takes (module_name, file_path): the call
\* raises TypeError, and so does update_file in the handler, which leaves the
\* inner try.
Load(t) ==
    /\ active = t
    /\ task[t].pc = "load"
    /\ IF binding = "repository"
       THEN /\ task' = [task EXCEPT ![t].pc = "except"]
            /\ UNCHANGED <<clock, storeVars, worldVars, active, health_status>>
       ELSE \E answer \in {"loaded", "none", "raised"} :
              IF answer = "loaded"
              THEN /\ DaemonUpdate(t, {<<"status", "accepted_and_loaded">>})
                   /\ task' = [task EXCEPT
                                 ![t].pc = "feedback_wait",
                                 ![t].processed = @ + 1,
                                 ![t].done = @ \cup {<<task[t].module_id, "accepted">>}]
                   /\ active' = NoTask
                   /\ UNCHANGED health_status
              ELSE /\ DaemonUpdate(t, {<<"status", "acceptance_load_failed">>,
                                       <<"error", answer>>})
                   /\ task' = [task EXCEPT
                                 ![t] = Forget([@ EXCEPT
                                           !.pc = "for",
                                           !.done = @ \cup {<<task[t].module_id,
                                                              "accepted_load_failed">>}])]
                   /\ health_status' = [health_status EXCEPT !.error_count = @ + 1]
                   /\ UNCHANGED active
    /\ UNCHANGED <<binding, calls, result, sandbox_enabled, running, feedback, hist>>

\* await self.sccm_generator.receive_acceptance_feedback(...) returns.
FeedbackReturn(t) ==
    /\ active = NoTask
    /\ task[t].pc = "feedback_wait"
    /\ active' = t
    /\ feedback' = feedback \cup {<<task[t].module_id, task[t].report.accepted,
                                   task[t].report.reason>>}
    /\ task' = [task EXCEPT ![t] = Forget([@ EXCEPT
                                     !.pc = "for",
                                     !.notified = @ \cup {task[t].module_id}])]
    /\ Log("ModuleAcceptanceDaemon_Feedback_to_SCCM", task[t].module_id)
    /\ UNCHANGED <<binding, clock, storeVars, hash_records, nodes, edges, calls, result,
                   sandbox_enabled, running, health_status, hist>>

\* except Exception as e: around the whole for loop (lines 179-189).  Its
\* add_diary_entry passes severity=: with the repository's log the TypeError
\* leaves start().
Except(t) ==
    /\ active = t
    /\ task[t].pc = "except"
    /\ health_status' = [health_status EXCEPT !.status = "error", !.error_count = @ + 1]
    /\ IF SeverityRaises
       THEN /\ task' = [task EXCEPT ![t] = Forget([@ EXCEPT !.pc = "crashed"])]
            /\ UNCHANGED diary
       ELSE /\ task' = [task EXCEPT ![t] = Forget([@ EXCEPT !.pc = "sleep"])]
            /\ Log("ModuleAcceptanceDaemon_Error", NoId)
    /\ active' = NoTask
    /\ UNCHANGED <<binding, clock, storeVars, hash_records, nodes, edges, calls, result,
                   sandbox_enabled, running, feedback, hist>>

\* asyncio.sleep(acceptance_interval_seconds) is over.
Wake(t) ==
    /\ active = NoTask
    /\ task[t].pc = "sleep"
    /\ hist.cycles < MaxCycles
    /\ task' = [task EXCEPT ![t].pc = "while"]
    /\ hist' = [hist EXCEPT !.cycles = @ + 1]
    /\ active' = t
    /\ UNCHANGED <<binding, clock, storeVars, worldVars, calls, result, sandbox_enabled,
                   running, health_status, feedback>>

\* The generator stores a module: add_file(name, "python_code", code,
\* creator, metadata=...).
Submissions == {<<"good_module", {<<"purpose", "test">>}>>,
                <<"good_module", {<<"purpose", "test">>, <<"parent_file_id", "prior">>}>>,
                <<"import os", {<<"purpose", "test">>}>>,
                <<"infinite_loop_test", {<<"purpose", "test">>}>>}

Submit ==
    /\ active = NoTask
    /\ calls < MaxSubmits
    /\ \E sub \in Submissions, t1 \in clock..MaxClock :
          \E t2 \in t1..MaxClock :
             LET code == sub[1]
                 metadata == sub[2]
                 o == add_file("mod_a", "python_code", StrContent(code), Generator,
                               NoId, metadata, t1, t2, TRUE)
             IN  /\ SetStore(o)
                 /\ clock' = t2
                 /\ result' = [op |-> "add_file", file_id |-> NoId,
                               content |-> StrContent(code), who |-> Generator,
                               metadata |-> metadata, ret |-> o.ret]
    /\ calls' = calls + 1
    /\ UNCHANGED <<binding, daemonVars>>

Next ==
    \/ Submit
    \/ Start
    \/ Stop
    \/ \E t \in DOMAIN task :
          \/ While(t)
          \/ For(t)
          \/ GatekeeperStep(t)
          \/ EthicsReturn(t)
          \/ SandboxCall(t)
          \/ SandboxReturn(t)
          \/ LineageStep(t)
          \/ Branch(t)
          \/ Load(t)
          \/ FeedbackReturn(t)
          \/ Except(t)
          \/ Wake(t)

Spec == Init /\ [][Next]_vars

(******************************* claims ************************************)
GateRank(gate) ==
    CASE gate = "gatekeeper" -> 1
      [] gate = "ethics" -> 2
      [] gate = "sandbox" -> 3
      [] gate = "lineage" -> 4

GatePassed(outcome) == outcome \in {"approved", "passed", "verified"}

HasGate(gates, gate, outcome) ==
    \E i \in 1..Len(gates) : gates[i] = Gate(gate, outcome)

\* C1: in one run of the protocol the gates are evaluated in the order
\* gatekeeper, ethics, sandbox (only when enabled), lineage; a gate is
\* followed by another only if it passed; the sandbox is never invoked for
\* content the gatekeeper rejects.
C1_GatesInFixedOrder ==
    \A t \in DOMAIN task :
       LET gates == task[t].gates
       IN  /\ \A i, j \in 1..Len(gates) :
                i < j => /\ GateRank(gates[i].gate) < GateRank(gates[j].gate)
                         /\ GatePassed(gates[i].outcome)
           /\ \A i \in 1..Len(gates) :
                gates[i].gate = "sandbox" =>
                   /\ sandbox_enabled
                   /\ validate_module(task[t].module_code) = "approved"

\* A run in which the gatekeeper rejected the content with the sandbox
\* enabled: the protocol has returned and the rejection is being reported.
C1_Witness ==
    \E t \in DOMAIN task :
       /\ task[t].pc = "feedback_wait"
       /\ sandbox_enabled
       /\ task[t].gates = <<Gate("gatekeeper", "rejected")>>

\* C2: the load of an artifact is attempted only if, in that run, the
\* gatekeeper approved, the ethics check approved, the sandbox passed when it
\* is enabled, and verify_lineage_chain was evaluated and returned true.
C2_LoadOnlyAfterAllGates ==
    \A t \in DOMAIN task :
       task[t].pc = "load" =>
          /\ HasGate(task[t].gates, "gatekeeper", "approved")
          /\ HasGate(task[t].gates, "ethics", "approved")
          /\ sandbox_enabled => HasGate(task[t].gates, "sandbox", "passed")
          /\ HasGate(task[t].gates, "lineage", "verified")

\* The status the store holds for an id: the record's status field, or the
\* status its metadata carries.
RecordedAs(id, status) ==
    /\ id \in DOMAIN files_metadata
    /\ \/ files_metadata[id].status = status
       \/ <<"status", status>> \in files_metadata[id].metadata

CycleOver(t) == task[t].pc \in {"sleep", "crashed"}

\* C3: when a gate failed for a pending artifact, at the end of that cycle
\* the store's record of that same id is marked rejected.
C3_RejectedIsRecorded ==
    \A t \in DOMAIN task :
       CycleOver(t) =>
          \A d \in task[t].done : d[2] = "rejected" => RecordedAs(d[1], "rejected_auto")

\* C4: an artifact the pipeline has rejected is never examined again.
C4_RejectedNeverReexamined == hist.reexamined = {}

\* C5: when every gate passed and the load failed, the store's record of
\* that artifact is marked accepted_load_failed.
C5_LoadFailureIsRecorded ==
    \A t \in DOMAIN task :
       \A d \in task[t].done :
          d[2] = "accepted_load_failed" => RecordedAs(d[1], "acceptance_load_failed")

\* C6: every artifact that was pending at the start of a cycle has been
\* examined when the cycle is over.
C6_WholeCycleExamined ==
    \A t \in DOMAIN task :
       CycleOver(t) =>
          \A i \in 1..Len(task[t].pending) : task[t].pending[i] \in task[t].reached

\* C7: when a cycle is over, a feedback notification has been delivered for
\* every artifact it accepted, rejected or failed to load.
C7_FeedbackForEveryOutcome ==
    \A t \in DOMAIN task :
       CycleOver(t) => \A d \in task[t].done : d[1] \in task[t].notified

InProtocol(t) ==
    task[t].pc \in {"gatekeeper", "ethics_wait", "sandbox", "sandbox_wait", "lineage"}

\* C8: at most one execution of the acceptance protocol is in progress for
\* any artifact id.
C8_OneProtocolPerArtifact ==
    \A t, u \in DOMAIN task :
       (t # u /\ InProtocol(t) /\ InProtocol(u)) => task[t].module_id # task[u].module_id

\* The call the last step made was update_file on an existing id, with no
\* metadata and content that hashes to the stored content_hash.
IdenticalUpdateCalled ==
    /\ calls' = calls + 1
    /\ result'.op = "update_file"
    /\ result'.file_id \in DOMAIN files_metadata
    /\ result'.metadata = {}
    /\ hash_content(Serialize(result'.content)) = files_metadata[result'.file_id].content_hash

\* C9: update(id, c, u) with no metadata and content whose hash equals the
\* stored content_hash returns the existing artifact (same id) and leaves the
\* store's records, the ledger's records and the graph's nodes and edges as
\* they were.
C9_IdenticalUpdateReturnsExisting ==
    [][IdenticalUpdateCalled =>
         /\ result'.ret.outcome = "returned"
         /\ result'.ret.value = result'.file_id
         /\ UNCHANGED <<files_metadata, file_order, artifacts, hash_records, nodes, edges>>]_vars

\* C10: an update that creates a version returns a record whose
\* parent_file_id is the id it was given, and no add or update removes or
\* overwrites an existing record: every record of the store is still there,
\* field for field, after the step.
C10_RecordsNeverOverwritten ==
    [][/\ \A id \in DOMAIN files_metadata :
            /\ id \in DOMAIN files_metadata'
            /\ files_metadata'[id] = files_metadata[id]
       /\ (/\ calls' = calls + 1
           /\ result'.op = "update_file"
           /\ result'.ret.outcome = "returned"
           /\ result'.ret.value # result'.file_id)
          => files_metadata'[result'.ret.value].parent_file_id = result'.file_id]_vars

\* Following parent_file_id from id ends at a record without a parent and
\* passes no record twice.
RECURSIVE ChainEndsAtRoot(_, _)
ChainEndsAtRoot(id, seen) ==
    IF id \in seen \/ id \notin DOMAIN files_metadata THEN FALSE
    ELSE IF files_metadata[id].parent_file_id = NoId THEN TRUE
    ELSE ChainEndsAtRoot(files_metadata[id].parent_file_id, seen \cup {id})

\* C11: in every reachable store, following parent_file_id from any record
\* visits no record twice and ends at a record whose parent_file_id is null.
C11_ParentChainAcyclic ==
    \A id \in DOMAIN files_metadata : ChainEndsAtRoot(id, {})

\* The last step was add_file, or an update_file that went past the early
\* return (a version-creating update).
RecordCreatingCall ==
    /\ calls' = calls + 1
    /\ \/ result'.op = "add_file"
       \/ /\ result'.op = "update_file"
          /\ result'.file_id \in DOMAIN files_metadata
          /\ ~UpdateSkipped(files_metadata[result'.file_id].content_hash,
                            hash_content(Serialize(result'.content)), result'.metadata)

\* C12: every add and every version-creating update stores its record under
\* an id that was not in the store before.
C12_NewIdIsFresh ==
    [][RecordCreatingCall =>
         \E id \in DOMAIN files_metadata' : id \notin DOMAIN files_metadata]_vars

\* C13: an add_file that fails reports a storage failure and leaves the
\* records of the store (what get_file, list_files and get_file_history
\* read) as they were.
C13_FailedAddLeavesNoRecord ==
    [][(/\ calls' = calls + 1
        /\ result'.op = "add_file"
        /\ result'.ret.outcome # "returned")
       => /\ result'.ret.outcome = "failed"
          /\ UNCHANGED <<files_metadata, file_order>>]_vars

(************************* the ledger, called directly **********************)
\* (the mutation of salted_hash_content used for C14: the salt always appended)
always_salted_hash_content(content, salted, t) == <<"sha256", Serialize(content), t>>

\* LineageHasher.hash_content(content, salted): the digest of the serialized
\* content, with str(time.time()) appended to the data when salted (t is the
\* reading of the clock at line 56).
salted_hash_content(content, salted, t) ==
    IF salted THEN <<"sha256", Serialize(content), t>>
    ELSE hash_content(Serialize(content))

\* What a call of verify_lineage_chain gives its caller: False without a
\* record (line 149); with one, both ways out pass severity= to the log.
verify_outcome(artifact_id) ==
    IF artifact_id \notin DOMAIN hash_records
    THEN [outcome |-> "returned", value |-> FALSE]
    ELSE IF SeverityRaises THEN [outcome |-> "raised", value |-> FALSE]
    ELSE [outcome |-> "returned", value |-> verify_lineage_chain(artifact_id)]

\* The log entries verify_lineage_chain leaves (lines 127 and 174-190).
verify_entries(artifact_id) ==
    IF artifact_id \notin DOMAIN hash_records THEN {}
    ELSE {<<"LineageHasher_Record_Accessed", artifact_id>>} \cup
         (IF SeverityRaises THEN {}
          ELSE {<<IF verify_lineage_chain(artifact_id) THEN "LineageHasher_Chain_Verified"
                  ELSE "LineageHasher_Chain_Verification_Failed", artifact_id>>})

LedgerIds == {<<"C">>, <<"P1">>, <<"P2">>}
\* The contents recorded under each id: P1's content has two versions.
LedgerCodes(artifact_id) ==
    IF artifact_id = <<"C">> THEN {"good_module"}
    ELSE IF artifact_id = <<"P1">> THEN {"import os", "long_module"}
    ELSE {"infinite_loop_test"}
HashContents == {StrContent("{\"a\": 1}"), DictContent("a1"), StrContent("good_module")}
ParentLists ==
    {<<>>, <<hash_content("import os")>>,
     <<hash_content("import os"), hash_content("infinite_loop_test")>>,
     <<hash_content("infinite_loop_test"), hash_content("import os")>>}

CallHashContent ==
    /\ active = NoTask
    /\ calls < MaxLedgerCalls
    /\ \E content \in HashContents, salted \in BOOLEAN, t \in clock..MaxClock :
          LET value == salted_hash_content(content, salted, t)
          IN  /\ clock' = IF salted THEN t ELSE clock
              /\ result' = [op |-> "hash_content", content |-> content,
                            salted |-> salted,
                            ret |-> [outcome |-> "returned", value |-> value]]
              /\ hist' = [hist EXCEPT !.hashed = @ \cup
                            {[content |-> content, salted |-> salted, value |-> value,
                              time |-> t, call |-> calls + 1]}]
    /\ calls' = calls + 1
    /\ UNCHANGED <<binding, storeVars, worldVars, sandbox_enabled, running,
                   health_status, active, task, feedback>>

CallRecordArtifactHash ==
    /\ active = NoTask
    /\ calls < MaxLedgerCalls
    /\ \E artifact_id \in LedgerIds, parent_hashes \in ParentLists, t \in clock..MaxClock :
       \E code \in LedgerCodes(artifact_id) :
          LET w == record_artifact_hash(World, artifact_id, <<"", "module">>,
                                        hash_content(code), parent_hashes, t)
          IN  /\ SetWorld(w)
              /\ clock' = t
              /\ result' = [op |-> "record_artifact_hash", artifact_id |-> artifact_id,
                            content_hash |-> hash_content(code),
                            parent_hashes |-> parent_hashes,
                            ret |-> [outcome |-> "returned",
                                     value |-> w.hash_records[artifact_id]]]
    /\ calls' = calls + 1
    /\ UNCHANGED <<binding, storeVars, daemonVars>>

CallVerifyLineageChain ==
    /\ active = NoTask
    /\ \E artifact_id \in LedgerIds :
          /\ result' = [op |-> "verify_lineage_chain", artifact_id |-> artifact_id,
                        ret |-> verify_outcome(artifact_id)]
          /\ diary' = diary \cup verify_entries(artifact_id)
    /\ UNCHANGED <<binding, clock, storeVars, hash_records, nodes, edges, calls,
                   daemonVars>>

NextLedger == CallHashContent \/ CallRecordArtifactHash \/ CallVerifyLineageChain
SpecLedger == Init /\ [][NextLedger]_vars

Reverse(s) == [i \in 1..Len(s) |-> s[Len(s) + 1 - i]]

RecordCalled == calls' = calls + 1 /\ result'.op = "record_artifact_hash"

\* C15: the chain_hash a record call stores is the one the same call would
\* store, on the same ledger and at the same timestamp, with its parent
\* hashes supplied in the opposite order.
C15_ChainHashOrderIndependent ==
    [][RecordCalled =>
         LET r == result'.ret.value
             other == record_artifact_hash(World, r.artifact_id, r.artifact_type,
                                           r.content_hash, Reverse(r.parent_hashes),
                                           r.timestamp)
         IN  r.chain_hash = other.hash_records[r.artifact_id].chain_hash]_vars

\* A record call was made with two different parent hashes.
C15_Witness ==
    /\ result.op = "record_artifact_hash"
    /\ Len(result.parent_hashes) = 2
    /\ result.parent_hashes[1] # result.parent_hashes[2]
    /\ result.ret.value.chain_hash # result.content_hash

\* The parent hashes of a record that are the content_hash of no record.
MissingParents(artifact_id) ==
    {hash_records[artifact_id].parent_hashes[i] :
        i \in 1..Len(hash_records[artifact_id].parent_hashes)}
      \ {hash_records[r].content_hash : r \in DOMAIN hash_records}

\* C16: every call of verify(id) returns, and returns true exactly when the
\* ledger holds a record for id and every hash in its parent_hashes is the
\* content_hash of some record now in the ledger.
C16_VerifyExact ==
    [][result'.op = "verify_lineage_chain" =>
         /\ result'.ret.outcome = "returned"
         /\ result'.ret.value = (/\ result'.artifact_id \in DOMAIN hash_records
                                 /\ MissingParents(result'.artifact_id) = {})]_vars

\* The records reachable from a set of records through parent hashes.
RECURSIVE Reachable(_)
Reachable(ids) ==
    LET more == {r \in DOMAIN hash_records :
                   \E a \in ids : \E i \in 1..Len(hash_records[a].parent_hashes) :
                      hash_records[r].content_hash = hash_records[a].parent_hashes[i]}
    IN  IF more \subseteq ids THEN ids ELSE Reachable(ids \cup more)

\* C17: verify(id) never returns true while some record reachable from id
\* through parent hashes declares a parent hash that no record has as its
\* content_hash.
C17_VerifyTransitive ==
    [][(/\ result'.op = "verify_lineage_chain"
        /\ result'.artifact_id \in DOMAIN hash_records
        /\ \E a \in Reachable({result'.artifact_id}) : MissingParents(a) # {})
       => ~(result'.ret.outcome = "returned" /\ result'.ret.value)]_vars

(************************** the graph, called directly **********************)
GraphIds == {<<"n1">>, <<"n2">>}
GraphTypes == {"belief"}
GraphContents == {"good_module", "import os"}
GraphStatuses == {"active", "vetoed"}
GraphMetadatas == {{}, {<<"k", "v">>}}
EdgeTypes == {"supports"}

CallAddNode ==
    /\ active = NoTask
    /\ calls < MaxGraphCalls
    /\ \E node_id \in GraphIds, node_type \in GraphTypes, content \in GraphContents,
          status \in GraphStatuses, metadata \in GraphMetadatas \cup {NoneMeta},
          parent_node_id \in GraphIds \cup {NoId}, now \in clock..MaxClock :
       \E ts \in {NoTime, 0} :
          LET w == add_node(World, node_id, node_type, content, status, ts, metadata,
                            parent_node_id, now)
          IN  /\ SetWorld(w)
              /\ clock' = now
              /\ result' = [op |-> "add_node", node_id |-> node_id, content |-> content,
                            status |-> status, metadata |-> metadata,
                            parent_node_id |-> parent_node_id, now |-> now,
                            existed |-> node_id \in DOMAIN nodes,
                            ret |-> [outcome |-> "returned",
                                     value |-> IF node_id \in DOMAIN nodes
                                               THEN <<"bool", update_node_returns(World,
                                                        node_id, content, status, metadata)>>
                                               ELSE node_id]]
    /\ calls' = calls + 1
    /\ UNCHANGED <<binding, storeVars, daemonVars>>

CallUpdateNode ==
    /\ active = NoTask
    /\ calls < MaxGraphCalls
    /\ \E node_id \in GraphIds, new_content \in GraphContents \cup {NoneStr},
          new_status \in GraphStatuses \cup {NoneStr},
          new_metadata \in GraphMetadatas \cup {NoneMeta}, now \in clock..MaxClock :
          LET w == update_node(World, node_id, new_content, new_status, new_metadata, now)
          IN  /\ SetWorld(w)
              /\ clock' = now
              /\ result' = [op |-> "update_node", node_id |-> node_id,
                            content |-> new_content, status |-> new_status,
                            metadata |-> new_metadata, now |-> now,
                            existed |-> node_id \in DOMAIN nodes,
                            ret |-> [outcome |-> "returned",
                                     value |-> update_node_returns(World, node_id,
                                                 new_content, new_status, new_metadata)]]
    /\ calls' = calls + 1
    /\ UNCHANGED <<binding, storeVars, daemonVars>>

CallAddEdge ==
    /\ active = NoTask
    /\ calls < MaxGraphCalls
    /\ \E source \in GraphIds, target \in GraphIds, edge_type \in EdgeTypes,
          now \in clock..MaxClock :
          LET w == add_edge(World, source, target, edge_type, now)
          IN  /\ SetWorld(w)
              /\ clock' = now
              /\ result' = [op |-> "add_edge", source |-> source, target |-> target,
                            ret |-> [outcome |-> IF Len(w.edges) > Len(edges)
                                                 THEN "returned" ELSE "none",
                                     value |-> <<source, target, edge_type, now>>]]
    /\ calls' = calls + 1
    /\ UNCHANGED <<binding, storeVars, daemonVars>>

NextGraph == CallAddNode \/ CallUpdateNode \/ CallAddEdge
SpecGraph == Init /\ [][NextGraph]_vars

(***************************** claims: the graph ****************************)
AddNodeOnExisting ==
    /\ calls' = calls + 1
    /\ result'.op = "add_node"
    /\ result'.node_id \in DOMAIN nodes

\* C18: add_node on an id that exists leaves the number of nodes as it was,
\* leaves the nodes as update_node(id, content, status, metadata) on the graph
\* before the call leaves them, and adds no edge.
C18_AddExistingIsUpdate ==
    [][AddNodeOnExisting =>
         LET u == update_node(World, result'.node_id, result'.content, result'.status,
                              result'.metadata, result'.now)
         IN  /\ Cardinality(DOMAIN nodes') = Cardinality(DOMAIN nodes)
             /\ nodes' = u.nodes
             /\ edges' = edges]_vars

\* add_node was called on an existing id, with other content and naming an
\* existing node as its parent.
C18_Witness ==
    /\ result.op = "add_node"
    /\ result.existed
    /\ result.parent_node_id \in DOMAIN nodes
    /\ nodes[result.node_id].content = result.content
    /\ nodes[result.node_id].last_updated_timestamp > nodes[result.node_id].creation_timestamp

\* The supplied values of an update_node call all equal the node's own.
NothingDiffers ==
    /\ result'.content \in {NoneStr, nodes[result'.node_id].content}
    /\ result'.status \in {NoneStr, nodes[result'.node_id].status}
    /\ \/ result'.metadata = NoneMeta
       \/ result'.metadata \subseteq nodes[result'.node_id].metadata

UpdateNodeCalled ==
    /\ calls' = calls + 1
    /\ result'.op = "update_node"
    /\ result'.node_id \in DOMAIN nodes

\* C19: update_node returns false and leaves the node, its last-updated
\* timestamp and the ledger unchanged when no supplied value differs from the
\* node's (metadata entries the node already has included), and returns true
\* only when the node changed.
C19_UpdateReportsRealChange ==
    [][UpdateNodeCalled =>
         /\ NothingDiffers => /\ result'.ret.value = FALSE
                              /\ UNCHANGED <<nodes, hash_records>>
         /\ result'.ret.value = TRUE =>
               [nodes'[result'.node_id] EXCEPT !.last_updated_timestamp = 0]
                 # [nodes[result'.node_id] EXCEPT !.last_updated_timestamp = 0]]_vars

\* C20: after every graph call the source and the target of every edge are
\* ids of nodes, and add_edge with an absent source or target is rejected and
\* leaves the edges as they were.
C20_EdgeEndpointsExist ==
    [][/\ \A i \in 1..Len(edges') : /\ edges'[i].source \in DOMAIN nodes'
                                    /\ edges'[i].target \in DOMAIN nodes'
       /\ (/\ calls' = calls + 1
           /\ result'.op = "add_edge"
           /\ \/ result'.source \notin DOMAIN nodes
              \/ result'.target \notin DOMAIN nodes)
          => /\ result'.ret.outcome = "none"
             /\ edges' = edges]_vars

\* add_edge was refused for an absent endpoint while the graph has an edge.
C20_Witness ==
    /\ result.op = "add_edge"
    /\ result.ret.outcome = "none"
    /\ result.source \in DOMAIN nodes
    /\ result.target \notin DOMAIN nodes
    /\ edges # <<>>

(************************** the graph's queries *****************************)
\* get_edges_from_node, get_edges_to_node: the edges in stored order.
get_edges_from_node(es, node_id) == SelectSeq(es, LAMBDA e : e.source = node_id)
get_edges_to_node(es, node_id) == SelectSeq(es, LAMBDA e : e.target = node_id)

SeqElems(s) == {s[i] : i \in 1..Len(s)}

\* find_paths, the inner for loop: the queue entries appended for the edges
\* out of the last node of path (one entry per edge).
RECURSIVE Expansions(_, _)
Expansions(out, path) ==
    IF out = <<>> THEN <<>>
    ELSE LET next_node == Head(out).target
         IN  (IF next_node \notin SeqElems(path)
              THEN <<Append(path, next_node)>> ELSE <<>>)
             \o Expansions(Tail(out), path)

\* find_paths, the while loop (lines 242-256); a queue entry is its path, the
\* current node is the path's last element.
RECURSIVE find_paths_loop(_, _, _, _, _)
find_paths_loop(es, queue, paths, end_node_id, max_depth) ==
    IF queue = <<>> THEN paths
    ELSE LET path == Head(queue)
             current_node == path[Len(path)]
         IN  IF current_node = end_node_id
             THEN find_paths_loop(es, Tail(queue), Append(paths, path),
                                  end_node_id, max_depth)
             ELSE IF Len(path) >= max_depth
             THEN find_paths_loop(es, Tail(queue), paths, end_node_id, max_depth)
             ELSE find_paths_loop(es,
                                  Tail(queue) \o
                                    Expansions(get_edges_from_node(es, current_node), path),
                                  paths, end_node_id, max_depth)

\* The list find_paths computes before it logs.
find_paths(es, start_node_id, end_node_id, max_depth) ==
    find_paths_loop(es, <<<<start_node_id>>>>, <<>>, end_node_id, max_depth)

\* get_subgraph, the two for loops over the edges of the current node: the
\* targets (sources) not yet visited, in order.
RECURSIVE Unvisited(_, _)
Unvisited(ends, visited) ==
    IF ends = <<>> THEN <<>>
    ELSE IF Head(ends) \in visited THEN Unvisited(Tail(ends), visited)
    ELSE <<Head(ends)>> \o Unvisited(Tail(ends), visited \cup {Head(ends)})

EdgeTargets(es) == [i \in 1..Len(es) |-> es[i].target]
EdgeSources(es) == [i \in 1..Len(es) |-> es[i].source]

\* get_subgraph, the while loop (lines 285-302); a queue entry is
\* (node id, depth), sub_nodes the ids collected in order.
RECURSIVE get_subgraph_loop(_, _, _, _, _, _)
get_subgraph_loop(ns, es, queue, visited, sub_nodes, radius) ==
    IF queue = <<>> THEN sub_nodes
    ELSE LET current_node_id == Head(queue)[1]
             current_depth == Head(queue)[2]
             sub1 == IF current_node_id \in DOMAIN ns
                     THEN Append(sub_nodes, current_node_id) ELSE sub_nodes
             outs == IF current_depth < radius
                     THEN Unvisited(EdgeTargets(get_edges_from_node(es, current_node_id)),
                                    visited)
                     ELSE <<>>
             visited1 == visited \cup SeqElems(outs)
             ins == IF current_depth < radius
                    THEN Unvisited(EdgeSources(get_edges_to_node(es, current_node_id)),
                                   visited1)
                    ELSE <<>>
             more == outs \o ins
         IN  get_subgraph_loop(ns, es,
                               Tail(queue) \o
                                 [i \in 1..Len(more) |-> <<more[i], current_depth + 1>>],
                               visited1 \cup SeqElems(ins), sub1, radius)

\* What get_subgraph computes before it logs: the ids of its nodes and its edges.
get_subgraph(ns, es, center_node_id, radius) ==
    LET sub_nodes == get_subgraph_loop(ns, es, <<<<center_node_id, 0>>>>,
                                       {center_node_id}, <<>>, radius)
    IN  [nodes |-> sub_nodes,
         edges |-> SelectSeq(es, LAMBDA e : e.source \in SeqElems(sub_nodes)
                                            /\ e.target \in SeqElems(sub_nodes))]

\* Both queries end with add_diary_entry(..., severity="debug") (lines 259-265
\* and 310-316) before their return.
QueryOutcome(value, none) ==
    IF SeverityRaises THEN [outcome |-> "raised", value |-> none]
    ELSE [outcome |-> "returned", value |-> value]

\* The graph is built by add_node and add_edge, with default arguments
\* wherever the queries do not look.
BuildAddNode ==
    /\ active = NoTask
    /\ calls < MaxQueryCalls
    /\ \E node_id \in GraphIds, parent_node_id \in GraphIds \cup {NoId} :
          LET w == add_node(World, node_id, "belief", "good_module", "active", NoTime,
                            NoneMeta, parent_node_id, clock)
          IN  /\ SetWorld(w)
              /\ result' = [op |-> "add_node", node_id |-> node_id,
                            ret |-> [outcome |-> "returned", value |-> node_id]]
    /\ calls' = calls + 1
    /\ UNCHANGED <<binding, clock, storeVars, daemonVars>>

BuildAddEdge ==
    /\ active = NoTask
    /\ calls < MaxQueryCalls
    /\ \E source \in GraphIds, target \in GraphIds, edge_type \in EdgeTypes :
          LET w == add_edge(World, source, target, edge_type, clock)
          IN  /\ SetWorld(w)
              /\ result' = [op |-> "add_edge", source |-> source, target |-> target,
                            ret |-> [outcome |-> IF Len(w.edges) > Len(edges)
                                                 THEN "returned" ELSE "none",
                                     value |-> <<source, target>>]]
    /\ calls' = calls + 1
    /\ UNCHANGED <<binding, clock, storeVars, daemonVars>>

CallFindPaths ==
    /\ active = NoTask
    /\ \E start_node_id \in GraphIds, end_node_id \in GraphIds, max_depth \in 1..MaxDepth :
          /\ result' = [op |-> "find_paths", start |-> start_node_id,
                        end |-> end_node_id, max_depth |-> max_depth,
                        ret |-> QueryOutcome(find_paths(edges, start_node_id,
                                                        end_node_id, max_depth), <<>>)]
          /\ diary' = IF SeverityRaises THEN diary
                      ELSE diary \cup {<<"BeliefGraph_Paths_Found", start_node_id>>}
    /\ UNCHANGED <<binding, clock, storeVars, hash_records, nodes, edges, calls,
                   daemonVars>>

CallGetSubgraph ==
    /\ active = NoTask
    /\ \E center_node_id \in GraphIds, radius \in 0..MaxRadius :
          /\ result' = [op |-> "get_subgraph", center |-> center_node_id,
                        radius |-> radius,
                        ret |-> QueryOutcome(get_subgraph(nodes, edges, center_node_id,
                                                          radius),
                                             [nodes |-> <<>>, edges |-> <<>>])]
          /\ diary' = IF SeverityRaises THEN diary
                      ELSE diary \cup {<<"BeliefGraph_Subgraph_Extracted", center_node_id>>}
    /\ UNCHANGED <<binding, clock, storeVars, hash_records, nodes, edges, calls,
                   daemonVars>>

NextQuery == BuildAddNode \/ BuildAddEdge \/ CallFindPaths \/ CallGetSubgraph
SpecQuery == Init /\ [][NextQuery]_vars

(************************ claims: the graph's queries ***********************)
\* The node sequences from start to end along outgoing edges that repeat no
\* node and have at most max_depth nodes.
SimplePaths(start, end, max_depth) ==
    {p \in UNION {[1..n -> GraphIds] : n \in 1..max_depth} :
        /\ p[1] = start
        /\ p[Len(p)] = end
        /\ \A i, j \in 1..Len(p) : i # j => p[i] # p[j]
        /\ \A i \in 1..(Len(p) - 1) :
              \E k \in 1..Len(edges) : edges[k].source = p[i] /\ edges[k].target = p[i + 1]}

\* C21: a find_paths call that returns gives exactly the simple paths from
\* start to end of at most max_depth nodes, each once; find_paths(A, A, 1)
\* gives [[A]].
C21_FindPathsExact ==
    [][(result'.op = "find_paths" /\ result'.ret.outcome = "returned") =>
         LET paths == result'.ret.value
         IN  /\ SeqElems(paths) = SimplePaths(result'.start, result'.end, result'.max_depth)
             /\ \A i, j \in 1..Len(paths) : i # j => paths[i] # paths[j]
             /\ (result'.start = result'.end /\ result'.max_depth = 1)
                   => paths = <<(<<result'.start>>)>>]_vars

\* C22: a get_subgraph call with radius 0 on an existing center that returns
\* gives the center as its only node and no edge.
C22_SubgraphRadiusZero ==
    [][(/\ result'.op = "get_subgraph"
        /\ result'.radius = 0
        /\ result'.center \in DOMAIN nodes
        /\ result'.ret.outcome = "returned") =>
         /\ result'.ret.value.nodes = <<result'.center>>
         /\ result'.ret.value.edges = <<>>]_vars

(******************************* Gatekeeper *********************************)
\* Module code is a sequence of lines taken from GateLines; no pattern of the
\* Gatekeeper matches across two of these lines.
GateLines == {"\"\"\"doc\"\"\"", "import os", "import foo", "eval(x)",
              "requests.get(u)", "x = 1"}
GateCodes == UNION {[1..n -> GateLines] : n \in 0..MaxLines}
ModuleNames == {"x.py"}
ModuleTypes == {"python_code", "code"}

\* security_phrase_maps["prohibited_keywords"] (lines 26-35)
prohibited_keywords ==
    <<"os.system", "eval(", "exec(", "pickle.load", "subprocess.run", "shutil.rmtree",
      "rm -rf", "import socket", "socket.connect", "socket.bind", "while True:",
      "for _ in range(infinity)", "sys.exit(", "raise SystemExit", "__import__",
      "ctypes", "threading.Thread", "multiprocessing.Process">>

\* keyword.lower() in code_lower, for a line of GateLines
ContainsKeyword(line, keyword) == line = "eval(x)" /\ keyword = "eval("

\* security_phrase_maps["prohibited_regex_patterns"] (lines 36-57), each
\* pattern under a short name, with its severity level.
prohibited_regex_patterns ==
    <<[pattern |-> "import os", severity |-> "critical"],
      [pattern |-> "import sys", severity |-> "critical"],
      [pattern |-> "import subprocess", severity |-> "critical"],
      [pattern |-> "import shutil", severity |-> "critical"],
      [pattern |-> "import socket", severity |-> "critical"],
      [pattern |-> "file.write(", severity |-> "high"],
      [pattern |-> "requests.verb(", severity |-> "medium"],
      [pattern |-> "exec(", severity |-> "critical"],
      [pattern |-> "eval(", severity |-> "critical"],
      [pattern |-> "pickle.loads(", severity |-> "critical"],
      [pattern |-> "while True:", severity |-> "high"],
      [pattern |-> "for _ in range(inf):", severity |-> "high"],
      [pattern |-> "import ...; os.system(", severity |-> "critical"],
      [pattern |-> "def malicious_function(", severity |-> "critical"],
      [pattern |-> "class EvilClass(", severity |-> "critical"],
      [pattern |-> "with open(..., 'w'", severity |-> "high"],
      [pattern |-> "try: ... except Exception as e: pass", severity |-> "medium"],
      [pattern |-> "print(...password...)", severity |-> "medium"],
      [pattern |-> "input(", severity |-> "medium"],
      [pattern |-> "time.sleep(long)", severity |-> "medium"]>>

\* re.search(pattern, line), for a line of GateLines
MatchesPattern(line, pattern) ==
    \/ line = "import os" /\ pattern = "import os"
    \/ line = "eval(x)" /\ pattern = "eval("
    \/ line = "requests.get(u)" /\ pattern = "requests.verb("

\* re.findall(r"^\s*(?:import|from)\s+([a-zA-Z0-9_.]+)", code): the names the
\* lines import.
ImportsOf(code) ==
    {"os" : i \in {j \in 1..Len(code) : code[j] = "import os"}}
      \cup {"foo" : i \in {j \in 1..Len(code) : code[j] = "import foo"}}

\* structural_rules["allowed_imports_regex"] (lines 63-79): the names allowed,
\* of which ImportsOf can give "os" only.
allowed_imports == {"logging", "typing", "numpy", "asyncio", "fastapi", "os", "json",
                    "time", "re", "hashlib"}

Issue(type, rule, severity) == [type |-> type, rule |-> rule, severity |-> severity]

RECURSIVE SetToSeq(_)
SetToSeq(S) == IF S = {} THEN <<>>
               ELSE LET x == CHOOSE y \in S : TRUE IN <<x>> \o SetToSeq(S \ {x})

\* _check_security_patterns: the issues it appends, in order.
check_security_patterns(code) ==
    LET keywords == SelectSeq(prohibited_keywords,
                       LAMBDA k : \E i \in 1..Len(code) : ContainsKeyword(code[i], k))
        patterns == SelectSeq(prohibited_regex_patterns,
                       LAMBDA p : \E i \in 1..Len(code) : MatchesPattern(code[i], p.pattern))
        imports == SetToSeq(ImportsOf(code) \ allowed_imports)
    IN  [i \in 1..Len(keywords) |->
            Issue("Security_Violation", <<"keyword", keywords[i]>>, "critical")]
        \o [i \in 1..Len(patterns) |->
            Issue("Security_Violation", <<"regex", patterns[i].pattern>>,
                  patterns[i].severity)]
        \o [i \in 1..Len(imports) |->
            Issue("Security_Violation", <<"import", imports[i]>>, "critical")]

\* _check_structural_rules assigns report["details"]["function_density"] at
\* line 188, and the report built by validate_module has no "details" key:
\* the statement raises KeyError, whatever the code.
check_structural_rules_raises == TRUE

\* (the mutation of validation_status used for C23: only a critical issue rejects)
validation_status_by_severity(issues) ==
    IF \E i \in 1..Len(issues) : issues[i].severity = "critical"
    THEN "rejected" ELSE "approved"

\* validate_module lines 106-107: any issue gives "rejected".
validation_status(issues) ==
    IF issues # <<>> THEN "rejected" ELSE "approved"

\* Gatekeeper.validate_module as a call: the report, or the exception raised.
Gatekeeper_validate_module(module_code, module_name, module_type) ==
    LET issues == check_security_patterns(module_code)
        report == [module_name |-> module_name, module_type |-> module_type,
                   validation_status |-> validation_status(issues), issues |-> issues]
        blank == [report EXCEPT !.validation_status = "approved", !.issues = <<>>]
    IN  IF module_type = "python_code" /\ check_structural_rules_raises
        THEN [outcome |-> "raised", error |-> "KeyError", value |-> blank]
        ELSE IF SeverityRaises
        THEN [outcome |-> "raised", error |-> "TypeError", value |-> blank]
        ELSE [outcome |-> "returned", error |-> "none", value |-> report]

CallValidateModule ==
    /\ active = NoTask
    /\ \E module_code \in GateCodes, module_name \in ModuleNames,
          module_type \in ModuleTypes :
          LET ret == Gatekeeper_validate_module(module_code, module_name, module_type)
          IN  /\ result' = [op |-> "validate_module", module_code |-> module_code,
                            module_name |-> module_name, module_type |-> module_type,
                            ret |-> ret]
              /\ diary' = IF ret.outcome = "returned"
                          THEN diary \cup
                                 {<<IF ret.value.validation_status = "rejected"
                                    THEN "Gatekeeper_Validation_Rejected"
                                    ELSE "Gatekeeper_Validation_Approved", module_name>>}
                          ELSE diary
    /\ UNCHANGED <<binding, clock, storeVars, hash_records, nodes, edges, calls,
                   daemonVars>>

NextGate == CallValidateModule
SpecGate == Init /\ [][NextGate]_vars

(**************************** claims: Gatekeeper ****************************)
ValidateReturned ==
    result'.op = "validate_module" /\ result'.ret.outcome = "returned"

C24_ImportOsRejected ==
    [][(/\ result'.op = "validate_module"
        /\ \E i \in 1..Len(result'.module_code) : result'.module_code[i] = "import os"
        /\ result'.module_name = "x.py"
        /\ result'.module_type = "code") =>
         /\ result'.ret.outcome = "returned"
         /\ result'.ret.value.validation_status = "rejected"
         /\ \E i \in 1..Len(result'.ret.value.issues) :
               result'.ret.value.issues[i].type = "Security_Violation"]_vars

(*************************** GeminiSccmGenerator ****************************)
\* generate_module and the routing it drives (Layer4RoutingDaemon.route_query,
\* Layer4LLMClient.query).  What the outside answers is an input of the call:
\* the ethics verdict, what generate_content does on each attempt, which local
\* backends are marked available, the gate's verdict.

\* query's retries parameter (its default).
retries == 3

Gemini == "gemini-2.0-flash"
Ollama == "ollama_local_model"
Transformers == "transformers_local_model"
LocalModels == {Ollama, Transformers}

\* Python values a routed query can come back with: None, or one of the two
\* dicts query builds.
PyNone == [none |-> TRUE]
ResponseMetadata(model_name, attempt) ==
    [success |-> TRUE, model_name |-> model_name, response_text |-> "good_module",
     attempt |-> attempt]
FailedAfterRetries == [success |-> FALSE, reason |-> "Failed after 3 attempts"]
NoRetriesLeft == [success |-> FALSE, reason |-> "Unknown error or no retries left."]

\* What generate_content does on the three attempts of one query.
AnswerScripts == {<<"text", "text", "text">>, <<"empty", "text", "text">>,
                  <<"raises", "empty", "text">>, <<"empty", "raises", "empty">>,
                  <<"raises", "raises", "raises">>}

\* await asyncio.sleep(delay * (2 ** (attempt - 1))) (line 225), attempt
\* being the number of the attempt that has just failed.
backoff(delay, attempt) == delay * 2 ^ (attempt - 1)

\* Layer4LLMClient.query(model_name, prompt, retries=max_retries, delay=delay),
\* from the given attempt on: the value returned, the backends invoked (one
\* entry per attempt that reaches a backend), the attempts made and the
\* sleeps between them.
RECURSIVE query_loop(_, _, _, _, _, _)
query_loop(model_name, available, answers, max_retries, delay, attempt) ==
    IF ~(attempt < max_retries)
    THEN [value |-> NoRetriesLeft, invoked |-> <<>>, attempts |-> 0, sleeps |-> <<>>]
    ELSE LET called == model_name = Gemini \/ model_name \in available
             response_text == IF model_name = Gemini THEN answers[attempt + 1] = "text"
                              ELSE model_name \in available
             log == IF called THEN <<model_name>> ELSE <<>>
         IN  IF response_text
             THEN [value |-> ResponseMetadata(model_name, attempt + 1), invoked |-> log,
                   attempts |-> 1, sleeps |-> <<>>]
             ELSE IF attempt + 1 < max_retries
             THEN LET rest == query_loop(model_name, available, answers, max_retries,
                                         delay, attempt + 1)
                  IN  [value |-> rest.value, invoked |-> log \o rest.invoked,
                       attempts |-> 1 + rest.attempts,
                       sleeps |-> <<backoff(delay, attempt + 1)>> \o rest.sleeps]
             ELSE [value |-> FailedAfterRetries, invoked |-> log, attempts |-> 1,
                   sleeps |-> <<>>]

\* query with its default retries and delay, as route_query calls it.
query(model_name, available, answers) ==
    query_loop(model_name, available, answers, retries, 1, 0)

\* route_query(prompt, preferred_model=model): the preferred model is the one
\* candidate; the "LLM_Routing_Success" entry passes severity=; the value of
\* query is returned as it is.
route_query(preferred_model, available, answers) ==
    IF SeverityRaises
    THEN [value |-> [raised |-> "TypeError"], invoked |-> <<>>]
    ELSE query(preferred_model, available, answers)

\* bool(res) for the values above: None is false, a non-empty dict is true.
Truthy(res) == res # PyNone

\* not isinstance(res, Exception) and res
Usable(res) == "raised" \notin DOMAIN res /\ Truthy(res)

\* attempt_models (lines 106-113)
attempt_models(fallback_llm_enabled, available) ==
    <<Gemini>>
    \o (IF fallback_llm_enabled /\ Ollama \in available THEN <<Ollama>> ELSE <<>>)
    \o (IF fallback_llm_enabled /\ Transformers \in available THEN <<Transformers>> ELSE <<>>)

\* for model_to_try in attempt_models (lines 116-137), from position i on.
RECURSIVE try_models(_, _, _, _, _, _)
try_models(models, i, available, answers, issues, invoked) ==
    IF i > Len(models)
    THEN [generated_code |-> PyNone, issues |-> issues, invoked |-> invoked]
    ELSE LET r == route_query(models[i], available, answers)
         IN  IF Usable(r.value)
             THEN [generated_code |-> r.value, issues |-> issues,
                   invoked |-> invoked \o r.invoked]
             ELSE try_models(models, i + 1, available, answers,
                             Append(issues, "LLM_Generation_Error"),
                             invoked \o r.invoked)

\* The dict handed to the store as content.
AsContent(generated_code) ==
    IF generated_code.success
    THEN DictContent(CASE generated_code.attempt = 1 -> "response1"
                       [] generated_code.attempt = 2 -> "response2"
                       [] OTHER -> "response3")
    ELSE DictContent("failure")

\* metadata={"purpose": module_purpose, "context": context} (line 175)
module_metadata_accepting == {<<"purpose", "test">>, <<"context", "ctx">>,
                              <<"status", "accepted">>}
module_metadata == {<<"purpose", "test">>, <<"context", "ctx">>}

GeneratedName == "generated_python_code_h"

generation_report(status, module_id, issues) ==
    [status |-> status, module_id |-> module_id, issues |-> issues]

GenOutcome(fm, order, art, w, outcome, report, invoked) ==
    [fm |-> fm, order |-> order, art |-> art, w |-> w, invoked |-> invoked,
     ret |-> [outcome |-> outcome, value |-> report]]

\* generate_module(module_purpose, context, "python_code", None,
\* fallback_llm_enabled).  vet_proposition is called with proposition_id=,
\* which the repository's DVMBackend.vet_proposition does not take; the
\* collaborators of the other binding take what they are given, and there
\* module_loader.add_module is the store's add_file.
generate_module(fallback_llm_enabled, available, approved, answers, gate, t1, t2) ==
    LET same(outcome, w, report, invoked) ==
            GenOutcome(files_metadata, file_order, artifacts, w, outcome, report, invoked)
        models == attempt_models(fallback_llm_enabled, available)
        g == try_models(models, 1, available, answers, <<>>, <<>>)
        o == add_file(GeneratedName, "python_code", AsContent(g.generated_code),
                      Generator, NoId, module_metadata, t1, t2, TRUE)
    IN  IF binding = "repository"
        THEN same("raised", World, generation_report("failed", NoId, <<>>), <<>>)
        ELSE IF ~approved
        THEN same("returned",
                  add_diary_entry(World, "SCCM_Module_Generation_Failed", NoId),
                  generation_report("failed", NoId, <<"Ethical_Veto">>), <<>>)
        ELSE IF g.generated_code = PyNone
        THEN same("returned",
                  add_diary_entry(World, "SCCM_Module_Generation_Failed", NoId),
                  generation_report("failed", NoId, g.issues), g.invoked)
        ELSE IF gate = "rejected"
        THEN same("returned",
                  add_diary_entry(World, "SCCM_Module_Generation_Failed", NoId),
                  generation_report("failed", NoId,
                                    Append(g.issues, "Security_Violation")), g.invoked)
        ELSE GenOutcome(o.fm, o.order, o.art,
                        add_diary_entry(o.w, "SCCM_Module_Generation_Success", o.ret.value),
                        "returned",
                        generation_report("success", o.ret.value, g.issues), g.invoked)

MaxGenCalls == 2

CallGenerateModule ==
    /\ active = NoTask
    /\ calls < MaxGenCalls
    /\ \E fallback_llm_enabled \in BOOLEAN, available \in SUBSET LocalModels,
          approved \in BOOLEAN, answers \in AnswerScripts,
          gate \in {"approved", "rejected"}, t1 \in clock..MaxClock :
          \E t2 \in t1..MaxClock :
             LET o == generate_module(fallback_llm_enabled, available, approved,
                                      answers, gate, t1, t2)
             IN  /\ SetStore(o)
                 /\ clock' = IF o.ret.value.status = "success" THEN t2 ELSE clock
                 /\ result' = [op |-> "generate_module",
                               models |-> attempt_models(fallback_llm_enabled, available),
                               approved |-> approved, answers |-> answers,
                               gate |-> gate, invoked |-> o.invoked, ret |-> o.ret]
    /\ calls' = calls + 1
    /\ UNCHANGED <<binding, daemonVars>>

NextGen == CallGenerateModule \/ CallAddFile \/ CallUpdateFile

SpecGen == Init /\ [][NextGen]_vars

\* A backend delivers when one of its attempts yields text: the primary by
\* its answers, a local backend of attempt_models always.
Delivers(model_name, answers) ==
    model_name # Gemini \/ \E i \in 1..retries : answers[i] = "text"

\* The position in models of the first backend that delivers, the last
\* position when none does.
LastTried(models, answers) ==
    IF \E i \in 1..Len(models) : Delivers(models[i], answers)
    THEN CHOOSE i \in 1..Len(models) :
            /\ Delivers(models[i], answers)
            /\ \A j \in 1..(i - 1) : ~Delivers(models[j], answers)
    ELSE Len(models)

\* The backends of an invocation log, repeated attempts counted once.
RECURSIVE Collapse(_)
Collapse(invoked) ==
    IF Len(invoked) <= 1 THEN invoked
    ELSE IF invoked[1] = invoked[2] THEN Collapse(Tail(invoked))
    ELSE <<invoked[1]>> \o Collapse(Tail(invoked))

\* C25: when generate_module returns after an approved ethics check, the
\* backends it invoked are, in the configured order, exactly those up to and
\* including the first one that delivered text: a backend that ended in an
\* error or an empty result (its retries exhausted) is followed by the next
\* one, and no backend is invoked after the first that delivered.
C25_BackendsInOrderWithFallback ==
    (/\ result.op = "generate_module"
     /\ result.ret.outcome = "returned"
     /\ result.approved)
    => Collapse(result.invoked)
          = SubSeq(result.models, 1, LastTried(result.models, result.answers))

GenStep == calls' = calls + 1 /\ result'.op = "generate_module"

StoreChanged ==
    files_metadata' # files_metadata \/ file_order' # file_order \/ artifacts' # artifacts

\* Some backend of the call's list delivers text.
Delivered(models, answers) == \E i \in 1..Len(models) : Delivers(models[i], answers)

\* C26: a call of generate_module changes the store only if the ethics
\* check approved, some backend delivered content and the gate approved it;
\* on a veto, when no backend delivered, or on a gate rejection, the store is
\* unchanged and the call returns a report with status "failed".
C26_StoreOnlyAfterApprovals ==
    [][GenStep =>
        LET r == result'
            ok == r.approved /\ Delivered(r.models, r.answers) /\ r.gate = "approved"
        IN  /\ StoreChanged => ok
            /\ ~ok => /\ ~StoreChanged
                      /\ r.ret.outcome = "returned"
                      /\ r.ret.value.status = "failed"]_vars

\* C27: a call of generate_module with an approving ethics check, a backend
\* that delivers and an approving gate returns status "success" with the id
\* of a record it stored; that record is the only new one, its status is
\* "stored", and list_files("python_code", "stored") contains it.
C27_SuccessStoresOnePending ==
    [][(/\ GenStep
        /\ result'.approved
        /\ Delivered(result'.models, result'.answers)
        /\ result'.gate = "approved")
       => LET r == result'.ret
              id == r.value.module_id
          IN  /\ r.outcome = "returned"
              /\ r.value.status = "success"
              /\ id \in DOMAIN files_metadata'
              /\ (DOMAIN files_metadata') \ (DOMAIN files_metadata) \subseteq {id}
              /\ files_metadata'[id].status = "stored"
              /\ files_metadata'[id].file_type = "python_code"
              /\ \E i \in 1..Len(file_order') : file_order'[i] = id]_vars

Decided == {"accepted", "rejected", "accepted_load_failed"}

\* The record says one of the pipeline's verdicts, in its status field or
\* under the "status" key of its metadata.
DecidedRecord(rec) ==
    \/ rec.status \in Decided
    \/ \E p \in rec.metadata : p[1] = "status" /\ p[2] \in Decided

\* C28: after any sequence of generate_module, add_file and update_file
\* calls (the pipeline not running) no record of the store says accepted,
\* rejected or accepted_load_failed.
C28_OnlyPipelineDecides ==
    \A id \in DOMAIN files_metadata : ~DecidedRecord(files_metadata[id])

\* generate_module has stored a record and update_file a later version.
C28_Witness ==
    /\ \E id \in DOMAIN files_metadata :
          /\ files_metadata[id].creator_id = Generator
          /\ files_metadata[id].status = "stored"
    /\ \E id \in DOMAIN files_metadata : files_metadata[id].status = "updated"

(************************* AGIFileSystem.get_file_history *******************)
\* latest_timestamp = 0 (line 330): below every reading of time.time().  The
\* model's readings start at 0, so the initial value is one below them.
InitialLatest == -1

\* Lines 331-334: the record named file_name with the greatest
\* last_modified_timestamp, the first such in the dict's order; NoId if none.
RECURSIVE latest_version(_, _, _, _)
latest_version(file_name, i, latest_timestamp, current_file_id) ==
    IF i > Len(file_order) THEN current_file_id
    ELSE LET metadata == files_metadata[file_order[i]]
         IN  IF /\ metadata.file_name = file_name
                /\ metadata.last_modified_timestamp > latest_timestamp
             THEN latest_version(file_name, i + 1, metadata.last_modified_timestamp,
                                 file_order[i])
             ELSE latest_version(file_name, i + 1, latest_timestamp, current_file_id)

\* Lines 342-348: while current_file_id: ... following parent_file_id.  The
\* loop has no exit when it comes back to a record it has appended already.
RECURSIVE history_walk(_, _, _)
history_walk(current_file_id, history, seen) ==
    IF current_file_id = NoId THEN [outcome |-> "returned", value |-> history]
    ELSE IF current_file_id \notin DOMAIN files_metadata
    THEN [outcome |-> "returned", value |-> history]
    ELSE IF current_file_id \in seen
    THEN [outcome |-> "never_returns", value |-> history]
    ELSE history_walk(files_metadata[current_file_id].parent_file_id,
                      Append(history, files_metadata[current_file_id]),
                      seen \cup {current_file_id})

get_file_history(file_name) ==
    LET current_file_id == latest_version(file_name, 1, InitialLatest, NoId)
        walk == history_walk(current_file_id, <<>>, {})
    IN  IF current_file_id = NoId THEN [outcome |-> "returned", value |-> <<>>]
        ELSE [walk EXCEPT !.value = Reverse(@)]

HistoryNames == FileNames \cup {"mod_b"}

CallGetFileHistory ==
    /\ active = NoTask
    /\ \E file_name \in HistoryNames :
          result' = [op |-> "get_file_history", file_name |-> file_name,
                     ret |-> get_file_history(file_name)]
    /\ UNCHANGED <<binding, clock, storeVars, worldVars, calls, daemonVars>>

NextHistory == CallAddFile \/ CallUpdateFile \/ CallGetFileHistory

SpecHistory == Init /\ [][NextHistory]_vars

Versions(file_name) ==
    {id \in DOMAIN files_metadata : files_metadata[id].file_name = file_name}

\* C30: get_file_history(name) returns; when versions named name exist the
\* list's last element is one of them and none was modified later; every
\* element after the first has the element before it as its parent; the list
\* reaches back to a record without a parent or with a parent that is not
\* stored.
C30_HistoryIsParentChain ==
    result.op = "get_file_history"
    => LET h == result.ret.value
       IN  /\ result.ret.outcome = "returned"
           /\ (h = <<>>) <=> (Versions(result.file_name) = {})
           /\ h # <<>> =>
                 /\ h[Len(h)].file_name = result.file_name
                 /\ \A id \in Versions(result.file_name) :
                       files_metadata[id].last_modified_timestamp
                          <= h[Len(h)].last_modified_timestamp
                 /\ \A i \in 2..Len(h) : h[i].parent_file_id = h[i - 1].file_id
                 /\ h[1].parent_file_id \notin DOMAIN files_metadata

(******************* the acceptance loop and its run flag *******************)
\* One step of the coroutine t.  The event loop resumes a coroutine whose
\* await is over: the awaited collaborators and asyncio.sleep return.
\* MaxCycles caps the passes that begin.  The sleep also ends when the cap
\* is reached and the flag is down: that wake begins no pass.
WakeStopped(t) ==
    /\ active = NoTask
    /\ task[t].pc = "sleep"
    /\ ~(hist.cycles < MaxCycles)
    /\ ~running
    /\ task' = [task EXCEPT ![t].pc = "while"]
    /\ active' = t
    /\ UNCHANGED <<binding, clock, storeVars, worldVars, calls, result, sandbox_enabled,
                   running, health_status, feedback, hist>>

TaskStep(t) ==
    /\ t \in DOMAIN task
    /\ \/ While(t)
       \/ For(t)
       \/ GatekeeperStep(t)
       \/ EthicsReturn(t)
       \/ SandboxCall(t)
       \/ SandboxReturn(t)
       \/ LineageStep(t)
       \/ Branch(t)
       \/ Load(t)
       \/ FeedbackReturn(t)
       \/ Except(t)
       \/ Wake(t)
       \/ WakeStopped(t)

\* The loop's control does not depend on the readings of time.time(): here
\* every reading is the current one.
LoopStep(t) == TaskStep(t) /\ clock' = clock

\* The generator stores one plain module.
SubmitPlain ==
    /\ Submit
    /\ result'.content = StrContent("good_module")
    /\ result'.metadata = {<<"purpose", "test">>}
    /\ clock' = clock

NextLoop ==
    \/ SubmitPlain
    \/ Start
    \/ Stop
    \/ \E t \in 1..MaxTasks : LoopStep(t)

SpecLoop == Init /\ [][NextLoop]_vars /\ \A t \in 1..MaxTasks : WF_vars(LoopStep(t))

Exited(t) == task[t].pc \in {"done", "crashed"}

\* C29: a pass over the pending work begins only while the run flag is set,
\* and the loop ends only at the flag's check between two passes, never in
\* the middle of one; once the flag is down, either it is set again (start()
\* called again) or every loop eventually exits.
C29_StopsBetweenIterations ==
    /\ [][\A t \in DOMAIN task :
             /\ (task[t].pc = "while" /\ task'[t].pc = "for") => running
             /\ (task[t].pc # "done" /\ task'[t].pc = "done")
                   => (task[t].pc = "while" /\ ~running)]_vars
    /\ (~running /\ \E t \in DOMAIN task : ~Exited(t))
          ~> (running \/ \A t \in DOMAIN task : Exited(t))

\* stop() came while an evaluation was awaiting a collaborator; the pass was
\* completed afterwards (it set the status again) and the loop has exited.
C29_Witness ==
    /\ ~running
    /\ health_status.status = "running_ok"
    /\ \E t \in DOMAIN task : task[t].pc = "done" /\ task[t].reached # {}

(********************** LineageHasher.generate_dag_tree *********************)
\* visited_ids.add(current_id)
dag_visit_forgetting(visited_ids, current_id) == visited_ids
dag_visit(visited_ids, current_id) == visited_ids \cup {current_id}

\* next((r for r in self.hash_records.values() if r["content_hash"] ==
\* parent_hash), None): the first match in the dict's order, NoId if none.
parent_of_hash(hr, order, parent_hash) ==
    LET matches == SelectSeq(order, LAMBDA id : hr[id].content_hash = parent_hash)
    IN  IF matches = <<>> THEN NoId ELSE Head(matches)

\* for parent_hash in record["parent_hashes"] (lines 229-235), from i on:
\* the edges and the queue entries appended.
RECURSIVE dag_parents(_, _, _, _, _, _)
dag_parents(hr, order, current_id, current_depth, i, acc) ==
    IF i > Len(hr[current_id].parent_hashes) THEN acc
    ELSE LET parent_id == parent_of_hash(hr, order, hr[current_id].parent_hashes[i])
         IN  dag_parents(hr, order, current_id, current_depth, i + 1,
                 IF parent_id = NoId THEN acc
                 ELSE [edges |-> Append(acc.edges, [from |-> parent_id, to |-> current_id]),
                       queue |-> Append(acc.queue, <<parent_id, current_depth + 1>>)])

\* while queue: (lines 208-235).  steps counts the turns of the loop.
RECURSIVE dag_loop(_, _, _, _, _, _, _, _)
dag_loop(hr, order, queue, visited_ids, dag_nodes, dag_edges, depth, steps) ==
    IF queue = <<>>
    THEN [nodes |-> dag_nodes, edges |-> dag_edges, steps |-> steps,
          accessed |-> visited_ids \cap DOMAIN hr]
    ELSE LET current_id == Head(queue)[1]
             current_depth == Head(queue)[2]
             rest == Tail(queue)
         IN  IF current_id \in visited_ids \/ current_depth > depth
             THEN dag_loop(hr, order, rest, visited_ids, dag_nodes, dag_edges, depth,
                           steps + 1)
             ELSE IF current_id \notin DOMAIN hr
             THEN dag_loop(hr, order, rest, dag_visit(visited_ids, current_id),
                           dag_nodes, dag_edges, depth, steps + 1)
             ELSE LET p == dag_parents(hr, order, current_id, current_depth, 1,
                                       [edges |-> dag_edges, queue |-> rest])
                  IN  dag_loop(hr, order, p.queue, dag_visit(visited_ids, current_id),
                               Append(dag_nodes,
                                      [id |-> current_id,
                                       type |-> hr[current_id].artifact_type]),
                               p.edges, depth, steps + 1)

generate_dag_tree(hr, order, root_artifact_id, depth) ==
    dag_loop(hr, order, <<<<root_artifact_id, 0>>>>, {}, <<>>, <<>>, depth, 0)

\* The orders a dict with these keys can have.
DictOrders(keys) ==
    {s \in [1..Cardinality(keys) -> keys] : \A i, j \in DOMAIN s : i # j => s[i] # s[j]}

MaxDagDepth == 2
MaxDagCalls == 4

\* Parent lists that can close a cycle or point at the record itself.
DagParentLists ==
    {<<>>, <<hash_content("good_module")>>, <<hash_content("import os")>>,
     <<hash_content("import os"), hash_content("infinite_loop_test")>>}

\* P2's content may be P1's: two records then answer to one parent hash.
DagCodes(artifact_id) ==
    IF artifact_id = <<"C">> THEN {"good_module"}
    ELSE IF artifact_id = <<"P1">> THEN {"import os"}
    ELSE {"infinite_loop_test", "import os"}

CallRecordLineage ==
    /\ active = NoTask
    /\ calls < MaxDagCalls
    /\ \E artifact_id \in LedgerIds, parent_hashes \in DagParentLists :
       \E code \in DagCodes(artifact_id) :
          LET w == record_artifact_hash(World, artifact_id, <<"", "module">>,
                                        hash_content(code), parent_hashes, clock)
          IN  /\ SetWorld(w)
              /\ result' = [op |-> "record_artifact_hash", artifact_id |-> artifact_id,
                            content_hash |-> hash_content(code),
                            parent_hashes |-> parent_hashes,
                            ret |-> [outcome |-> "returned",
                                     value |-> w.hash_records[artifact_id]]]
    /\ calls' = calls + 1
    /\ UNCHANGED <<binding, clock, storeVars, daemonVars>>

CallGenerateDagTree ==
    /\ active = NoTask
    /\ calls < MaxDagCalls
    /\ \E root_artifact_id \in LedgerIds, depth \in 0..MaxDagDepth,
          order \in DictOrders(DOMAIN hash_records) :
          LET dag == generate_dag_tree(hash_records, order, root_artifact_id, depth)
          IN  /\ result' = [op |-> "generate_dag_tree", root |-> root_artifact_id,
                            depth |-> depth, order |-> order,
                            ret |-> [outcome |-> "returned",
                                     value |-> [nodes |-> dag.nodes, edges |-> dag.edges],
                                     steps |-> dag.steps]]
              /\ diary' = diary \cup {<<"LineageHasher_Record_Accessed", id>> :
                                        id \in dag.accessed}
    /\ calls' = calls + 1
    /\ UNCHANGED <<binding, clock, storeVars, hash_records, nodes, edges, daemonVars>>

NextDag == CallRecordLineage \/ CallGenerateDagTree

SpecDag == Init /\ [][NextDag]_vars

\* b is a parent of a: some parent hash of a's record is b's content hash.
ParentStep(a, b) ==
    /\ a \in DOMAIN hash_records /\ b \in DOMAIN hash_records
    /\ \E i \in 1..Len(hash_records[a].parent_hashes) :
          hash_records[a].parent_hashes[i] = hash_records[b].content_hash

\* The records at most k parent steps away from root.
RECURSIVE WithinSteps(_, _)
WithinSteps(root, k) ==
    IF k = 0 THEN {root} \cap DOMAIN hash_records
    ELSE LET near == WithinSteps(root, k - 1)
         IN  near \cup {b \in DOMAIN hash_records : \E a \in near : ParentStep(a, b)}

DagCalled == result.op = "generate_dag_tree"

DagNodeIds == {result.ret.value.nodes[i].id : i \in 1..Len(result.ret.value.nodes)}

\* The parent hashes of all records together.
RECURSIVE ParentCount(_)
ParentCount(ids) ==
    IF ids = {} THEN 0
    ELSE LET id == CHOOSE x \in ids : TRUE
         IN  Len(hash_records[id].parent_hashes) + ParentCount(ids \ {id})

\* C31: generate_dag_tree returns after at most one turn of its loop for
\* the root and one for every parent hash of a record, also when parent
\* hashes lead back to a visited record; no id appears twice among the
\* nodes; every node is a record at most depth parent steps from the root.
C31_DagTerminatesBounded ==
    DagCalled =>
       LET ns == result.ret.value.nodes
       IN  /\ result.ret.outcome = "returned"
           /\ result.ret.steps <= 1 + ParentCount(DOMAIN hash_records)
           /\ \A i, j \in 1..Len(ns) : ns[i].id = ns[j].id => i = j
           /\ DagNodeIds \subseteq WithinSteps(result.root, result.depth)

\* A cycle of parent hashes through the root was walked: the root has a
\* parent among the nodes, and that parent has the root as a parent.
C31_Witness ==
    /\ DagCalled
    /\ \E b \in DagNodeIds \ {result.root} :
          /\ ParentStep(result.root, b) /\ ParentStep(b, result.root)
          /\ result.root \in DagNodeIds

\* C39: both endpoints of every edge generate_dag_tree returns are among the
\* nodes it returns.
C39_DagEdgesWithinNodes ==
    DagCalled =>
       \A i \in 1..Len(result.ret.value.edges) :
          /\ result.ret.value.edges[i].from \in DagNodeIds
          /\ result.ret.value.edges[i].to \in DagNodeIds

(*********************** claims: the subgraph query *************************)
\* The ids at most k hops from center, an edge followed in either direction.
RECURSIVE WithinHops(_, _)
WithinHops(center, k) ==
    IF k = 0 THEN {center}
    ELSE LET near == WithinHops(center, k - 1)
         IN  near \cup {edges[i].target : i \in {j \in 1..Len(edges) : edges[j].source \in near}}
                  \cup {edges[i].source : i \in {j \in 1..Len(edges) : edges[j].target \in near}}

SubgraphCalled == result.op = "get_subgraph"

\* C32: get_subgraph(center, radius) returns; its nodes are exactly the
\* existing nodes at most radius hops from center, each once; its edges are
\* exactly the graph's edges with both ends among those nodes, in the
\* graph's order.
C32_SubgraphExact ==
    SubgraphCalled =>
       LET sub == result.ret.value
           inside == WithinHops(result.center, result.radius) \cap DOMAIN nodes
       IN  /\ result.ret.outcome = "returned"
           /\ SeqElems(sub.nodes) = inside
           /\ Len(sub.nodes) = Cardinality(inside)
           /\ sub.edges = SelectSeq(edges, LAMBDA e : e.source \in inside
                                                       /\ e.target \in inside)

(*********************** claims: the gate's report **************************)
\* required_docstrings is set, and re.match(r"^\s*\"\"\"[\s\S]*?\"\"\"|...",
\* code) fails: the code does not begin with a docstring.
missing_docstring(code) == code = <<>> \/ code[1] # "\"\"\"doc\"\"\""

ValidateCalled == result.op = "validate_module"

HasIssue(issues, type, rule) ==
    \E i \in 1..Len(issues) : issues[i].type = type /\ issues[i].rule = rule

\* C33: validate on python_code that violates a keyword, regex or import
\* rule and also lacks the module docstring returns a report that holds an
\* issue for each of the security rules violated and the structural issue
\* as well.
C33_AllViolationsReported ==
    (/\ ValidateCalled
     /\ result.module_type = "python_code"
     /\ check_security_patterns(result.module_code) # <<>>
     /\ missing_docstring(result.module_code))
    => /\ result.ret.outcome = "returned"
       /\ \A i \in 1..Len(check_security_patterns(result.module_code)) :
             HasIssue(result.ret.value.issues, "Security_Violation",
                      check_security_patterns(result.module_code)[i].rule)
       /\ \E i \in 1..Len(result.ret.value.issues) :
             result.ret.value.issues[i].type = "Structural_Violation"

\* C40: validate on python_code returns a report whose status is approved
\* or rejected, whatever the code.
C40_PythonCodeValidationReturns ==
    (ValidateCalled /\ result.module_type = "python_code")
    => /\ result.ret.outcome = "returned"
       /\ result.ret.value.validation_status \in {"approved", "rejected"}

(************************** Layer4LLMClient.query ***************************)
\* query called on its own.  Its loop begins with start_time = time.time()
\* (line 164), outside the try, and Layer4_llm_client.py never imports time:
\* as the module stands the first turn raises NameError before any attempt.
\* The other binding has the name bound.
query_call(model_name, available, answers, max_retries, delay) ==
    IF binding = "repository" /\ 0 < max_retries
    THEN [outcome |-> "raised", error |-> "NameError", value |-> PyNone,
          invoked |-> <<>>, attempts |-> 0, sleeps |-> <<>>]
    ELSE LET q == query_loop(model_name, available, answers, max_retries, delay, 0)
         IN  [outcome |-> "returned", error |-> "none", value |-> q.value,
              invoked |-> q.invoked, attempts |-> q.attempts, sleeps |-> q.sleeps]

Delays == {1, 3}

CallQuery ==
    /\ active = NoTask
    /\ \E model_name \in {Gemini, Ollama}, available \in SUBSET LocalModels,
          answers \in AnswerScripts, max_retries \in 0..retries, delay \in Delays :
          LET ret == query_call(model_name, available, answers, max_retries, delay)
          IN  /\ result' = [op |-> "query", model_name |-> model_name,
                            available |-> available, answers |-> answers,
                            retries |-> max_retries, delay |-> delay, ret |-> ret]
              /\ diary' = diary \cup {<<"LLMClient_Prompt_Sent", NoId>>}
                            \cup (IF ret.outcome = "returned" /\ ret.value.success
                                  THEN {<<"LLMClient_Query_Success", NoId>>} ELSE {})
                            \cup (IF ret.outcome = "returned" /\ ~ret.value.success
                                     /\ ret.attempts > 0
                                  THEN {<<"LLMClient_Query_Failed_Max_Retries", NoId>>}
                                  ELSE {})
    /\ UNCHANGED <<binding, clock, storeVars, hash_records, nodes, edges, calls,
                   daemonVars>>

NextClient == CallQuery

SpecClient == Init /\ [][NextClient]_vars

QueryCalled == result.op = "query"

\* The attempts of the call that fail: all of them unless the last succeeds.
FailedAttempts ==
    IF result.ret.value.success THEN result.ret.attempts - 1 ELSE result.ret.attempts

\* C34: a query returns; it makes at most retries attempts; after its k-th
\* failed attempt, k < retries, it sleeps delay * 2^(k-1) and after no other;
\* when every attempt failed it has made exactly retries attempts and
\* returns a result with success False.
C34_RetriesWithBackoff ==
    QueryCalled =>
       /\ result.ret.outcome = "returned"
       /\ result.ret.attempts <= result.retries
       /\ LET waits == IF FailedAttempts < result.retries THEN FailedAttempts
                       ELSE result.retries - 1
          IN  result.ret.sleeps
                 = [k \in 1..(IF waits < 0 THEN 0 ELSE waits) |-> result.delay * 2 ^ (k - 1)]
       /\ ~result.ret.value.success => result.ret.attempts = result.retries

(************************ a failing activity-log sink ***********************)
\* The calls below are made with a sink whose add_diary_entry raises on one
\* call of the handler (fails names the call) and works on the others.
SinkFailures == {"none", "record", "node", "added"}

\* record_artifact_hash: the record is stored (line 110) before the sink is
\* called (lines 113-118), and the call is not guarded.
record_artifact_hash_sink(w, artifact_id, artifact_type, content_hash, parent_hashes, ts, sink_ok) ==
    LET done == record_artifact_hash(w, artifact_id, artifact_type, content_hash,
                                     parent_hashes, ts)
    IN  IF sink_ok
        THEN [w |-> done, outcome |-> "returned"]
        ELSE [w |-> [done EXCEPT !.diary = w.diary], outcome |-> "raised"]

\* add_file (lines 85-142): the record is put into files_metadata, then
\* inside the try the content file is written, the ledger, the graph and the
\* sink are called; an exception of any of them goes to the except clause,
\* which calls the sink again with severity= and returns the failure dict.
\* (the calls of lines 105-130 after the ledger's call returned or raised
\* in the world r.w, and the except clause of lines 133-142)
add_file_diverted(ok, r, file_name, file_type, content_str, creator_id, t2, fails) ==
    IF fails = "none" THEN ok
    ELSE LET file_id == ok.ret.value
             reached ==
                CASE fails = "record" -> r.w
                  [] fails = "node" ->
                       [add_node(r.w, file_id, file_type, ContentPreview(content_str),
                                 "active", t2,
                                 {<<"file_name", file_name>>, <<"creator_id", creator_id>>,
                                  <<"content_hash", content_str>>}, NoId, t2)
                          EXCEPT !.diary = @ \ {<<"BeliefGraph_Node_Added", file_id>>}]
                  [] OTHER ->
                       [ok.w EXCEPT !.diary = @ \ {<<"AGIFileSystem_File_Added", file_id>>}]
         IN  IF SeverityRaises
             THEN StoreOutcome(ok.fm, ok.order, ok.art, reached, "raised", NoId)
             ELSE StoreOutcome(ok.fm, ok.order, ok.art,
                               add_diary_entry(reached, "AGIFileSystem_File_Add_Failed",
                                               file_id),
                               "failed", NoId)

\* (the ledger's call of lines 97-104, made for the record that ok stored)
add_file_recorded(ok, file_name, file_type, content_str, creator_id, parent_file_id, t2, fails) ==
    add_file_diverted(ok,
                      record_artifact_hash_sink(
                         World, ok.ret.value, <<"", file_type>>, hash_content(content_str),
                         IF parent_file_id # NoId /\ parent_file_id \in DOMAIN ok.fm
                         THEN <<ok.fm[parent_file_id].content_hash>> ELSE <<>>,
                         t2, fails # "record"),
                      file_name, file_type, content_str, creator_id, t2, fails)

add_file_sink(file_name, file_type, content, creator_id, parent_file_id, metadata, t1, t2, fails) ==
    add_file_recorded(add_file(file_name, file_type, content, creator_id, parent_file_id,
                               metadata, t1, t2, TRUE),
                      file_name, file_type, Serialize(content), creator_id, parent_file_id,
                      t2, fails)

\* (what the sink does to a call depends neither on the readings of the
\* clock nor on the caller's metadata: both are fixed here)
CallAddFileSink ==
    /\ active = NoTask
    /\ calls < MaxCalls
    /\ \E file_name \in FileNames, file_type \in FileTypes, content \in StoreContents,
          creator_id \in Creators, metadata \in {{}},
          parent_file_id \in (DOMAIN files_metadata) \cup {NoId},
          t1 \in {clock}, fails \in SinkFailures :
          \E t2 \in {t1} :
             LET o == add_file_sink(file_name, file_type, content, creator_id,
                                    parent_file_id, metadata, t1, t2, fails)
             IN  /\ SetStore(o)
                 /\ clock' = t2
                 /\ result' = [op |-> "add_file", file_name |-> file_name,
                               file_type |-> file_type, content |-> content,
                               who |-> creator_id, parent_file_id |-> parent_file_id,
                               metadata |-> metadata, t1 |-> t1, t2 |-> t2,
                               fails |-> fails, ret |-> o.ret]
    /\ calls' = calls + 1
    /\ UNCHANGED <<binding, daemonVars>>

CallRecordSink ==
    /\ active = NoTask
    /\ calls < MaxCalls
    /\ \E artifact_id \in LedgerIds, parent_hashes \in ParentLists, sink_ok \in BOOLEAN :
       \E code \in LedgerCodes(artifact_id) :
          LET r == record_artifact_hash_sink(World, artifact_id, <<"", "module">>,
                                             hash_content(code), parent_hashes, clock,
                                             sink_ok)
          IN  /\ SetWorld(r.w)
              /\ result' = [op |-> "record_artifact_hash", artifact_id |-> artifact_id,
                            content_hash |-> hash_content(code),
                            parent_hashes |-> parent_hashes,
                            fails |-> IF sink_ok THEN "none" ELSE "record",
                            ret |-> [outcome |-> r.outcome,
                                     value |-> r.w.hash_records[artifact_id]]]
    /\ calls' = calls + 1
    /\ UNCHANGED <<binding, clock, storeVars, daemonVars>>

NextSink == CallAddFileSink \/ CallRecordSink

SpecSink == Init /\ [][NextSink]_vars

\* The call left what the outcome o holds.
LeftAs(o) ==
    /\ result'.ret = o.ret
    /\ files_metadata' = o.fm
    /\ artifacts' = o.art
    /\ hash_records' = o.w.hash_records
    /\ nodes' = o.w.nodes
    /\ edges' = o.w.edges

\* C35: a call of add_file or record_artifact_hash returns the same and
\* leaves the same store, ledger and graph as the same call made with a sink
\* that works on every call.
C35_SinkNeverDecides ==
    [][(calls' = calls + 1) =>
        IF result'.op = "add_file"
        THEN LeftAs(add_file(result'.file_name, result'.file_type, result'.content,
                             result'.who, result'.parent_file_id, result'.metadata,
                             result'.t1, result'.t2, TRUE))
        ELSE /\ result'.ret.outcome = "returned"
             /\ hash_records' =
                  record_artifact_hash(World, result'.artifact_id, <<"", "module">>,
                                       result'.content_hash, result'.parent_hashes,
                                       clock).hash_records]_vars

\* C36: whatever another caller reads between two operations, every record
\* of the store has the ledger record and the graph node that the same add
\* or update makes: no operation is left applied in part.
C36_NoPartlyAppliedAdd ==
    \A id \in DOMAIN files_metadata :
        /\ id \in DOMAIN hash_records
        /\ id \in DOMAIN nodes

(************************ storage errors in the loop ************************)
\* The daemon's update_file call when the write of the content file raises:
\* update_file catches the error and returns {"status": "failed"}, which the
\* daemon does not look at.
DaemonUpdateFailing(t, metadata) ==
    /\ SetStore(update_file(task[t].module_id, StrContent(task[t].module_code),
                            Daemon, metadata, clock, clock, FALSE))
    /\ clock' = clock

\* The rejection branch (lines 143-160) with that failing update_file.
BranchStorageError(t) ==
    /\ active = t
    /\ task[t].pc = "branch"
    /\ ~task[t].report.accepted
    /\ binding = "assumed"
    /\ DaemonUpdateFailing(t, {<<"status", "rejected_auto">>,
                               <<"reason", task[t].report.reason>>})
    /\ task' = [task EXCEPT ![t].pc = "feedback_wait",
                            ![t].done = @ \cup {<<task[t].module_id, "rejected">>}]
    /\ hist' = [hist EXCEPT !.rejected = @ \cup {task[t].module_id}]
    /\ active' = NoTask
    /\ UNCHANGED <<binding, calls, result, sandbox_enabled, running, health_status, feedback>>

\* asyncio.sleep(acceptance_interval_seconds) is over (line 192): the loop
\* keeps no count of its passes.
WakeAgain(t) ==
    /\ active = NoTask
    /\ task[t].pc = "sleep"
    /\ task' = [task EXCEPT ![t].pc = "while"]
    /\ active' = t
    /\ UNCHANGED <<binding, clock, storeVars, worldVars, calls, result, sandbox_enabled,
                   running, health_status, feedback, hist>>

RetryStep(t) ==
    /\ t \in DOMAIN task
    /\ \/ While(t)
       \/ For(t)
       \/ GatekeeperStep(t)
       \/ BranchStorageError(t)
       \/ FeedbackReturn(t)
       \/ Except(t)
       \/ WakeAgain(t)
    /\ clock' = clock

\* The generator stores one module that the gatekeeper rejects.
SubmitRejected ==
    /\ Submit
    /\ result'.content = StrContent("import os")
    /\ clock' = clock

NextRetry ==
    \/ SubmitRejected
    \/ Start
    \/ Stop
    \/ \E t \in 1..MaxTasks : RetryStep(t)

SpecRetry == Init /\ [][NextRetry]_vars /\ \A t \in 1..MaxTasks : WF_vars(RetryStep(t))

\* A pass takes the next pending artifact up for processing.
Examines(t) ==
    /\ t \in DOMAIN task
    /\ task[t].pc = "for"
    /\ task'[t].idx = task[t].idx + 1

StorageErrorStep(t) ==
    /\ t \in DOMAIN task
    /\ task[t].pc = "branch"
    /\ task'[t].pc = "feedback_wait"

\* C37: the artifact whose status update fails with a storage error keeps
\* the status "stored", and from some pass on no artifact is taken up again:
\* the passes that retry an artifact are finitely many.
C37_RetriesCapped ==
    /\ [][\A t \in 1..MaxTasks :
             StorageErrorStep(t) =>
                /\ task[t].module_id \in DOMAIN files_metadata'
                /\ files_metadata'[task[t].module_id].status = "stored"]_vars
    /\ <>[][\A t \in 1..MaxTasks : ~Examines(t)]_vars

\* (the part of C37 the loop does satisfy: the artifact stays pending)
C37_StaysPending ==
    [][\A t \in 1..MaxTasks :
          StorageErrorStep(t) =>
             /\ task[t].module_id \in DOMAIN files_metadata'
             /\ files_metadata'[task[t].module_id].status = "stored"]_vars

\* C38: the ledger record kept under the id of a stored artifact has the
\* artifact's content_hash, and its parent_hashes are the content hash of the
\* artifact's parent version when that version is stored and empty otherwise.
C38_LedgerMatchesStore ==
    \A id \in (DOMAIN files_metadata) \cap (DOMAIN hash_records) :
        LET parent == files_metadata[id].parent_file_id
        IN  /\ hash_records[id].content_hash = files_metadata[id].content_hash
            /\ hash_records[id].parent_hashes =
                 IF parent # NoId /\ parent \in DOMAIN files_metadata
                 THEN <<files_metadata[parent].content_hash>> ELSE <<>>

====
